---- MODULE Spec2Model ----
(***************************************************************************)
(* The vault of the AI-employee repository: task documents in              *)
(* Needs_Action/, the archive Done/, approval requests in                  *)
(* Pending_Approval/ and plan documents in Plans/, as they are changed by  *)
(* silver_loop.run_pipeline, approval_gate and                             *)
(* mcp_email_server.handle_send_email.                                     *)
(*                                                                         *)
(* Time is counted in whole hours.  A text (a front-matter value, a task   *)
(* description, a reason string) is a string of a finite universe; the     *)
(* substring tests of the code ("kw in text") are decided by the tables    *)
(* KeywordsOf and MentionsOf, which list, for each text of the universe,   *)
(* the keywords and the names (file names, addresses) occurring in it.     *)
(***************************************************************************)
EXTENDS Integers, Sequences, FiniteSets, TLC

(* ------------------------------ bounds -------------------------------- *)
MaxTasks == 2
MaxPasses == 2
MaxTime == 72
MaxSends == 2
MaxRequests == 2

(* ------------------------------- names -------------------------------- *)
\* A name is a pair <<kind, index>>; two names are equal iff the strings
\* they stand for are equal, and no name of the universe is a substring of
\* another one.
FileName(i) == <<"TASK", i>>
Address(j) == <<"addr", j>>
TaskId(k) == <<"NA", k>>
EmptyStr == <<"", 0>>
NoField == <<"absent", 0>>

TickLen == {24}

(* ------------------------------- texts -------------------------------- *)
D_GMAIL == "Email received from **bob@x.com**. **Subject**: Quote"
D_MAILTO == "Send the signed offer to bob@x.com"
D_INVOICE == "Pay invoice 42 to the supplier"
D_LINKEDIN == "Draft a LinkedIn post about the launch"
D_WATCHER == "New file detected in Inbox."
D_FILEJOB == "Convert the report to PDF"
D_NOTE == "Summarise the meeting"

D_MIXED == "Email the overdue invoice and post it to the budget chat"
\* The keywords of classify_task and of the front-matter values that occur
\* in text s, lower-cased (s.lower() in the code).
KeywordsOf(s) ==
    CASE s = "email" -> {"email"}
      [] s = "file_event" -> {"file"}
      [] s = "file" -> {"file"}
      [] s = "finance" -> {"finance"}
      [] s = "marketing" -> {"marketing"}
      [] s = D_GMAIL -> {"email"}
      [] s = D_INVOICE -> {"invoice"}
      [] s = D_LINKEDIN -> {"linkedin", "post"}
      [] s = D_WATCHER -> {"inbox", "file detect"}
      [] s = D_MIXED -> {"email", "invoice", "post", "budget", "chat"}
      [] s = "message" -> {"message"}
      [] s = "alert" -> {"alert"}
      [] s = "email_bridge.py" -> {"email"}
      [] OTHER -> {}

\* The names occurring verbatim in text s.
MentionsOf(s) ==
    CASE s = D_GMAIL -> {Address(1)}
      [] s = D_MAILTO -> {Address(1)}
      [] OTHER -> {}

Has(kw, s) == kw \in KeywordsOf(s)

(* --------------------------- task documents --------------------------- *)
\* What a producer deposits: the front matter and the body sections of a
\* task document.
Template(type, source, priority, email_from, desc, outcome) ==
    [type |-> type, source |-> source, priority |-> priority,
     email_from |-> email_from, desc |-> desc, outcome |-> outcome]

\* gmail_watcher.build_email_task
T_GMAIL == Template("email", "gmail_watcher.py", "medium", Address(1), D_GMAIL, TRUE)
\* watcher.build_task_content
T_WATCHER == Template("file_event", "watcher.py", "medium", NoField, D_WATCHER, TRUE)
\* documents deposited by other means
T_MAILTO == Template("email", "manual", "high", NoField, D_MAILTO, TRUE)
T_INVOICE == Template("finance", "manual", "high", NoField, D_INVOICE, TRUE)
T_LINKEDIN == Template("marketing", "manual", "low", NoField, D_LINKEDIN, TRUE)
T_FILEJOB == Template("file", "manual", "medium", NoField, D_FILEJOB, TRUE)
T_NOTE == Template("note", "manual", "low", NoField, D_NOTE, TRUE)
T_BROKEN == Template("file", "manual", "medium", NoField, D_FILEJOB, FALSE)

Templates ==
    {T_GMAIL, T_WATCHER, T_MAILTO, T_INVOICE, T_LINKEDIN, T_FILEJOB, T_NOTE, T_BROKEN}

\* unchecked and checked count the "- [ ]" and "- [x]" items, results and
\* notes the "## Result" and "## Completion Notes" sections of the document.
\* the documents the producers of the model deposit
Deposited == {T_GMAIL, T_WATCHER, T_MAILTO, T_INVOICE, T_FILEJOB, T_BROKEN}

NewTask(t, now) ==
    [type |-> t.type, source |-> t.source, priority |-> t.priority,
     email_from |-> t.email_from, desc |-> t.desc, outcome |-> t.outcome,
     status |-> "pending", created |-> now,
     unchecked |-> 3, checked |-> 0, results |-> 0, notes |-> 0]

(* ---------------------------- approval gate --------------------------- *)
\* EXPIRY_WINDOWS with the windows of low and high exchanged
EXPIRY_WINDOWS_Exchanged(risk) ==
    CASE risk = "low" -> 24
      [] risk = "medium" -> 48
      [] risk = "high" -> 72

EXPIRY_WINDOWS(risk) ==
    CASE risk = "low" -> 72
      [] risk = "medium" -> 48
      [] risk = "high" -> 24

RiskLevels == {"low", "medium", "high"}

\* create_approval_file, lines 93-95
NormalizeRisk(risk_level) == IF risk_level \notin RiskLevels THEN "high" ELSE risk_level

\* create_approval_file, lines 97-99 and 119-161: the document written.
\* for_file is no part of the document: it remembers the task document the
\* router requested the approval for (0: none).
ApprovalDoc(action_type, desc, target, risk_level, source_task, now) ==
    LET risk == NormalizeRisk(risk_level) IN
    [action_type |-> action_type, risk_level |-> risk, status |-> "pending",
     created |-> now, expires |-> now + EXPIRY_WINDOWS(risk),
     target |-> target, desc |-> desc, source_task |-> source_task, for_file |-> 0]

\* create_approval_file without the validation of lines 86-91
create_approval_file_Unvalidated(approvals, action_type, desc, target, risk_level, source_task, now) ==
    Append(approvals, ApprovalDoc(action_type, desc, target, risk_level, source_task, now))

\* The approvals directory is the sequence of its documents in file-name
\* order: APPROVAL_<timestamp>[_<counter>].md sorts by creation.  A
\* description is the sequence of the texts it is concatenated from.
create_approval_file(approvals, action_type, desc, target, risk_level, source_task, now) ==
    IF action_type = "" \/ desc = <<>> \/ target = EmptyStr
    THEN approvals
    ELSE Append(approvals,
                ApprovalDoc(action_type, desc, target, risk_level, source_task, now))

\* what create_approval_file returns, lines 86-91 and 186
CreateReturns(action_type, desc, target) ==
    IF action_type = "" THEN [status |-> "failed", error |-> "missing action_type"]
    ELSE IF desc = <<>> THEN [status |-> "failed", error |-> "missing description"]
    ELSE IF target = EmptyStr THEN [status |-> "failed", error |-> "missing target"]
    ELSE [status |-> "pending", error |-> ""]

\* "target in content": the names occurring in an approval document
ContentNames(d) ==
    {d.target, d.source_task} \cup UNION {MentionsOf(d.desc[k]) : k \in 1..Len(d.desc)}

InContent(target, d) == target \in ContentNames(d)

R_UNREADABLE == "cannot read Pending_Approval/"
R_EXPIRED == "approval expired at"
R_REJECTED == "approval was rejected"
R_REVISION == "revision requested by reviewer"
R_PENDING == "approval is pending human review"
R_NOMATCH == "no matching approval file found"

NotApproved(reason, at) == [approved |-> FALSE, file |-> 0, reason |-> reason, at |-> at]
Approved(i) == [approved |-> TRUE, file |-> i, reason |-> "", at |-> 0]

\* check_approval, lines 229-238: what is read from an expires field that is
\* missing or that datetime.fromisoformat rejects.  No deadline is compared
\* with the clock then.
NoDeadline == 0 - 1

\* IsExpired looking at the deadline of undecided documents only
IsExpired_PendingOnly(d, now) ==
    d.expires # NoDeadline /\ now > d.expires /\ d.status = "pending"

\* check_approval, lines 230-238
IsExpired(d, now) == d.expires # NoDeadline /\ now > d.expires

\* ScanApprovals ending at the first matching document, whatever its status
RECURSIVE ScanApprovals_StopAtFirst(_, _, _, _, _)
ScanApprovals_StopAtFirst(approvals, i, action_type, target, now) ==
    IF i > Len(approvals) THEN NotApproved(R_NOMATCH, 0)
    ELSE LET d == approvals[i]
             rest == ScanApprovals_StopAtFirst(approvals, i + 1, action_type, target, now)
         IN  IF d.action_type # action_type THEN rest
             ELSE IF target # EmptyStr /\ ~InContent(target, d) THEN rest
             ELSE IF IsExpired(d, now) THEN NotApproved(R_EXPIRED, d.expires)
             ELSE IF d.status = "approved" THEN Approved(i)
             ELSE IF d.status = "rejected" THEN NotApproved(R_REJECTED, 0)
             ELSE IF d.status = "revision_requested" THEN NotApproved(R_REVISION, 0)
             ELSE IF d.status = "pending" THEN NotApproved(R_PENDING, 0)
             ELSE NotApproved(R_NOMATCH, 0)

\* check_approval, lines 204-249: the scan from document i on
RECURSIVE ScanApprovals(_, _, _, _, _)
ScanApprovals(approvals, i, action_type, target, now) ==
    IF i > Len(approvals) THEN NotApproved(R_NOMATCH, 0)
    ELSE LET d == approvals[i]
             rest == ScanApprovals(approvals, i + 1, action_type, target, now)
         IN  IF d.action_type # action_type THEN rest
             ELSE IF target # EmptyStr /\ ~InContent(target, d) THEN rest
             ELSE IF IsExpired(d, now) THEN NotApproved(R_EXPIRED, d.expires)
             ELSE IF d.status = "approved" THEN Approved(i)
             ELSE IF d.status = "rejected" THEN NotApproved(R_REJECTED, 0)
             ELSE IF d.status = "revision_requested" THEN NotApproved(R_REVISION, 0)
             ELSE IF d.status = "pending" THEN NotApproved(R_PENDING, 0)
             ELSE rest

check_approval(approvals, action_type, target, now) ==
    ScanApprovals(approvals, 1, action_type, target, now)

\* mark_approval_executed, lines 252-273
mark_approval_executed(approvals, i) ==
    IF i \notin 1..Len(approvals) THEN approvals
    ELSE IF approvals[i].status = "approved"
         THEN [approvals EXCEPT ![i].status = "executed"]
         ELSE approvals

(* ------------------------- silver_loop: analyze ----------------------- *)
PRIORITY_ORDER(p) ==
    CASE p = "high" -> 0
      [] p = "medium" -> 1
      [] OTHER -> 2

\* classify_task with the finance rule tried first
classify_task_FinanceFirst(ftype, source, desc) ==
    IF \E kw \in {"finance", "invoice", "payment", "budget"} : Has(kw, ftype) \/ Has(kw, desc)
    THEN "finance"
    ELSE IF Has("email", ftype) \/ Has("email", source) \/ Has("email", desc) \/ Has("inbox", desc)
    THEN "email"
    ELSE IF \E kw \in {"message", "chat", "notification", "alert"} : Has(kw, ftype)
    THEN "message"
    ELSE IF Has("file", ftype) \/ source = "watcher.py" \/ Has("file detect", desc)
    THEN "file"
    ELSE IF \E kw \in {"linkedin", "marketing", "social", "post"} : Has(kw, ftype) \/ Has(kw, desc)
    THEN "marketing"
    ELSE "general"

classify_task(ftype, source, desc) ==
    IF Has("email", ftype) \/ Has("email", source) \/ Has("email", desc) \/ Has("inbox", desc)
    THEN "email"
    ELSE IF \E kw \in {"message", "chat", "notification", "alert"} : Has(kw, ftype)
    THEN "message"
    ELSE IF Has("file", ftype) \/ source = "watcher.py" \/ Has("file detect", desc)
    THEN "file"
    ELSE IF \E kw \in {"finance", "invoice", "payment", "budget"} : Has(kw, ftype) \/ Has(kw, desc)
    THEN "finance"
    ELSE IF \E kw \in {"linkedin", "marketing", "social", "post"} : Has(kw, ftype) \/ Has(kw, desc)
    THEN "marketing"
    ELSE "general"

\* sorted(entries): the file indexes of a directory in ascending order
RECURSIVE SortedEntries(_)
SortedEntries(files) ==
    IF files = {} THEN <<>>
    ELSE LET m == CHOOSE x \in files : \A y \in files : x <= y
         IN  <<m>> \o SortedEntries(files \ {m})

\* phase_analyze, lines 206-216: the record of the idx-th entry
\* a front-matter value written in double quotes, as YAML allows
QuotedPending == "\"pending\""

\* parse_frontmatter, line 99: the value without surrounding quotes
StripQuotes(value) == IF value = QuotedPending THEN "pending" ELSE value

AnalyzedTask(inbox, f, idx) ==
    LET doc == inbox[f] IN
    [id |-> TaskId(idx), filename |-> f,
     type |-> classify_task(doc.type, doc.source, doc.desc),
     priority |-> IF doc.priority = "" THEN "low" ELSE doc.priority,
     created |-> doc.created, status |-> StripQuotes(doc.status), pos |-> idx,
     content |-> doc]

\* SortsBefore with the newest task first among equal priorities
SortsBefore_NewestFirst(a, b) ==
    \/ PRIORITY_ORDER(a.priority) < PRIORITY_ORDER(b.priority)
    \/ /\ PRIORITY_ORDER(a.priority) = PRIORITY_ORDER(b.priority)
       /\ \/ a.created > b.created
          \/ a.created = b.created /\ a.pos < b.pos

\* phase_analyze, lines 219-222: the sort key, the sort being stable
SortsBefore(a, b) ==
    \/ PRIORITY_ORDER(a.priority) < PRIORITY_ORDER(b.priority)
    \/ /\ PRIORITY_ORDER(a.priority) = PRIORITY_ORDER(b.priority)
       /\ \/ a.created < b.created
          \/ a.created = b.created /\ a.pos < b.pos

phase_analyze(inbox) ==
    LET entries == SortedEntries(DOMAIN inbox)
        tasks == [idx \in 1..Len(entries) |-> AnalyzedTask(inbox, entries[idx], idx)]
    IN  SortSeq(tasks, SortsBefore)

(* -------------------------- silver_loop: plan ------------------------- *)
VALID_PRIORITIES == {"low", "medium", "high"}

\* validate_task_schema without the check of the required sections
validate_task_schema_FrontMatterOnly(task) ==
    LET doc == task.content
        e1 == IF doc.type = "" THEN <<"missing frontmatter field: type">> ELSE <<>>
        e2 == IF doc.priority = "" THEN <<"missing frontmatter field: priority">> ELSE <<>>
        e3 == IF task.status = "" THEN <<"missing frontmatter field: status">> ELSE <<>>
        e4 == IF doc.source = "" THEN <<"missing frontmatter field: source">> ELSE <<>>
        e5 == IF doc.priority \notin VALID_PRIORITIES THEN <<"invalid priority">> ELSE <<>>
        e6 == IF task.status # "pending" THEN <<"status is not pending">> ELSE <<>>
    IN  e1 \o e2 \o e3 \o e4 \o e5 \o e6

\* validate_task_schema without the checks that stop a second execution
validate_task_schema_AnyStatus(task) ==
    LET doc == task.content
        e1 == IF doc.type = "" THEN <<"missing frontmatter field: type">> ELSE <<>>
        e2 == IF doc.priority = "" THEN <<"missing frontmatter field: priority">> ELSE <<>>
        e3 == IF task.status = "" THEN <<"missing frontmatter field: status">> ELSE <<>>
        e4 == IF doc.source = "" THEN <<"missing frontmatter field: source">> ELSE <<>>
        e5 == IF doc.priority \notin VALID_PRIORITIES THEN <<"invalid priority">> ELSE <<>>
        e7 == IF doc.desc = "" THEN <<"missing or empty section: ## Task Description">> ELSE <<>>
        e8 == IF ~doc.outcome THEN <<"missing or empty section: ## Required Outcome">> ELSE <<>>
        e9 == IF doc.unchecked + doc.checked = 0
              THEN <<"missing or empty section: ## Processing Checklist">> ELSE <<>>
    IN  e1 \o e2 \o e3 \o e4 \o e5 \o e7 \o e8 \o e9

validate_task_schema(task) ==
    LET doc == task.content
        e1 == IF doc.type = "" THEN <<"missing frontmatter field: type">> ELSE <<>>
        e2 == IF doc.priority = "" THEN <<"missing frontmatter field: priority">> ELSE <<>>
        e3 == IF task.status = "" THEN <<"missing frontmatter field: status">> ELSE <<>>
        e4 == IF doc.source = "" THEN <<"missing frontmatter field: source">> ELSE <<>>
        e5 == IF doc.priority \notin VALID_PRIORITIES THEN <<"invalid priority">> ELSE <<>>
        e6 == IF task.status # "pending" THEN <<"status is not pending">> ELSE <<>>
        e7 == IF doc.desc = "" THEN <<"missing or empty section: ## Task Description">> ELSE <<>>
        e8 == IF ~doc.outcome THEN <<"missing or empty section: ## Required Outcome">> ELSE <<>>
        e9 == IF doc.unchecked + doc.checked = 0
              THEN <<"missing or empty section: ## Processing Checklist">> ELSE <<>>
        e10 == IF doc.unchecked = 0 THEN <<"no unchecked checklist items found">> ELSE <<>>
    IN  e1 \o e2 \o e3 \o e4 \o e5 \o e6 \o e7 \o e8 \o e9 \o e10

\* requires_approval, lines 63-69
APPROVAL_REQUIRED_ACTIONS ==
    {"send_email", "publish_post", "linkedin_post", "financial_transaction",
     "delete_external", "external_api_call"}

\* requires_approval without the rule on the task type
requires_approval_ActionsOnly(action_type, task_type) ==
    action_type \in APPROVAL_REQUIRED_ACTIONS

requires_approval(action_type, task_type) ==
    action_type \in APPROVAL_REQUIRED_ACTIONS \/ task_type \in {"email", "finance"}

\* generate_plan, lines 286-322: the gate of each step
PlanSteps(task_type) ==
    CASE task_type = "email" ->
            <<"auto", "auto", "auto",
              IF requires_approval("", task_type) THEN "review" ELSE "auto">>
      [] task_type = "marketing" -> <<"auto", "auto", "review", "review">>
      [] task_type = "finance" -> <<"auto", "auto", "review", "review">>
      [] OTHER -> <<"auto", "auto", "auto">>

\* generate_plan, lines 329-337: the steps the plan lists under Approval
\* Gates; none stands for "No approval gates"
review_steps(steps) == {i \in 1..Len(steps) : steps[i] = "review"}

\* PLAN_<task_id>_<file_ts>.md
PlanName(task, now) == <<task.id, now>>

PlanDoc(task) ==
    [task_id |-> task.id, task_type |-> task.type, priority |-> task.priority,
     status |-> "pending", source_file |-> task.filename,
     steps |-> PlanSteps(task.type), checked |-> FALSE]

\* open(path, "w"): the document path now holds
WriteDoc(dir, name, doc) ==
    [n \in DOMAIN dir \cup {name} |-> IF n = name THEN doc ELSE dir[n]]

RemoveDoc(dir, name) == [n \in DOMAIN dir \ {name} |-> dir[n]]

generate_plan(S, task) ==
    [S EXCEPT !.plans = WriteDoc(S.plans, PlanName(task, S.now), PlanDoc(task))]

(* ------------------------ silver_loop: execute ------------------------ *)
\* NeedsGate gating file tasks too
NeedsGate_Files(task_type) == task_type \in {"email", "finance", "marketing", "file"}

\* execute_task, line 446
NeedsGate(task_type) == task_type \in {"email", "finance", "marketing"}

\* execute_task, lines 450-455
ACTION_MAP(task_type) ==
    CASE task_type = "email" -> "send_email"
      [] task_type = "finance" -> "financial_transaction"
      [] task_type = "marketing" -> "linkedin_post"
      [] OTHER -> task_type

\* The words execute_task looks for that occur in each reason string of
\* check_approval ("pending" does not occur in "Pending_Approval/").
ReasonWords(reason) ==
    CASE reason = R_NOMATCH -> {"no matching approval", "no matching"}
      [] reason = R_PENDING -> {"pending"}
      [] reason = R_REJECTED -> {"rejected"}
      [] reason = R_EXPIRED -> {"expired"}
      [] OTHER -> {}

ReasonHas(kw, reason) == kw \in ReasonWords(reason)

\* RouteOf taking an expired approval for one still awaited
RouteOf_ExpiredAwaits(v) ==
    IF v.approved THEN "execute"
    ELSE IF ReasonHas("no matching approval", v.reason) \/ ReasonHas("pending", v.reason)
    THEN IF ReasonHas("no matching", v.reason) THEN "request" ELSE "await"
    ELSE IF ReasonHas("rejected", v.reason) THEN "rejected"
    ELSE IF ReasonHas("expired", v.reason) THEN "await"
    ELSE "execute"

\* RouteOf going on to execute a task whose approval was rejected
RouteOf_RejectedExecutes(v) ==
    IF v.approved THEN "execute"
    ELSE IF ReasonHas("no matching approval", v.reason) \/ ReasonHas("pending", v.reason)
    THEN IF ReasonHas("no matching", v.reason) THEN "request" ELSE "await"
    ELSE IF ReasonHas("expired", v.reason) THEN "expired"
    ELSE "execute"

\* execute_task, lines 459-491: what the router does with a verdict
RouteOf(v) ==
    IF v.approved THEN "execute"
    ELSE IF ReasonHas("no matching approval", v.reason) \/ ReasonHas("pending", v.reason)
    THEN IF ReasonHas("no matching", v.reason) THEN "request" ELSE "await"
    ELSE IF ReasonHas("rejected", v.reason) THEN "rejected"
    ELSE IF ReasonHas("expired", v.reason) THEN "expired"
    ELSE "execute"

\* execute_task, line 466
ApprovalTarget(task) ==
    IF task.content.email_from = NoField THEN FileName(task.filename)
    ELSE task.content.email_from

\* execute_task, line 467
RiskOf(task_type) == IF task_type = "finance" THEN "high" ELSE "medium"

\* RequestApproval writing the request as already approved
RequestApproval_Approved(S, task) ==
    LET created == create_approval_file(S.approvals, ACTION_MAP(task.type),
                                        <<"Process task:", task.content.desc>>,
                                        ApprovalTarget(task), RiskOf(task.type),
                                        task.id, S.now)
    IN  [S EXCEPT !.approvals =
            IF Len(created) > Len(@)
            THEN [created EXCEPT ![Len(created)].for_file = task.filename,
                                 ![Len(created)].status = "approved"]
            ELSE created]

\* execute_task, lines 465-475
RequestApproval(S, task) ==
    LET created == create_approval_file(S.approvals, ACTION_MAP(task.type),
                                        <<"Process task:", task.content.desc>>,
                                        ApprovalTarget(task), RiskOf(task.type),
                                        task.id, S.now)
    IN  [S EXCEPT !.approvals =
            IF Len(created) > Len(@)
            THEN [created EXCEPT ![Len(created)].for_file = task.filename]
            ELSE created]

\* execute_task, lines 503-531: the rewritten task document
CompletedDoc(doc) ==
    [doc EXCEPT !.results = @ + 1,
                !.checked = @ + doc.unchecked,
                !.unchecked = 0,
                !.notes = @ + 1,
                !.status = IF @ = "pending" THEN "completed" ELSE @]

\* execute_task, lines 496-538
WriteResult(S, task) ==
    [S EXCEPT !.inbox = WriteDoc(@, task.filename, CompletedDoc(@[task.filename]))]

\* execute_task, lines 541-546
MarkGoverning(S, task) ==
    LET v == check_approval(S.approvals, ACTION_MAP(task.type),
                            FileName(task.filename), S.now)
    IN  IF NeedsGate(task.type) /\ v.approved
        THEN [S EXCEPT !.approvals = mark_approval_executed(@, v.file)]
        ELSE S

\* CompletePlan setting the status and leaving the steps unchecked
CompletePlan_StatusOnly(S, plan_path) ==
    IF plan_path \in DOMAIN S.plans
    THEN [S EXCEPT !.plans[plan_path].status = IF @ = "pending" THEN "completed" ELSE @]
    ELSE S

\* execute_task, lines 549-565
CompletePlan(S, plan_path) ==
    IF plan_path \in DOMAIN S.plans
    THEN [S EXCEPT !.plans[plan_path].status = IF @ = "pending" THEN "completed" ELSE @,
                   !.plans[plan_path].checked = TRUE]
    ELSE S

Ungated == [approved |-> FALSE, file |-> 0, reason |-> "not checked", at |-> 0]

\* What execute_task returns, with the verdict of its check at line 457
Routed(S, task, v, status) ==
    [S |-> S,
     entry |-> [file |-> task.filename, id |-> task.id, type |-> task.type,
                approved |-> v.approved, by |-> v.file, reason |-> v.reason,
                status |-> status]]

\* execute_task; lapse is the time invoke_claude_reasoning takes
execute_task(S, task, plan_path, dry_run, lapse) ==
    LET v == IF NeedsGate(task.type)
             THEN check_approval(S.approvals, ACTION_MAP(task.type),
                                 FileName(task.filename), S.now)
             ELSE Ungated
        route == IF NeedsGate(task.type) THEN RouteOf(v) ELSE "execute"
        S1 == [S EXCEPT !.now = @ + lapse]
        S2 == IF task.filename \in DOMAIN S1.inbox THEN WriteResult(S1, task) ELSE S1
        S3 == CompletePlan(MarkGoverning(S2, task), plan_path)
    IN  IF dry_run THEN Routed(S, task, Ungated, "dry_run")
        ELSE IF route = "request" THEN Routed(RequestApproval(S, task), task, v, "pending_approval")
        ELSE IF route = "await" THEN Routed(S, task, v, "pending_approval")
        ELSE IF route \in {"rejected", "expired"} THEN Routed(S, task, v, "failed")
        ELSE IF task.filename \notin DOMAIN S1.inbox THEN Routed(S1, task, v, "failed")
        ELSE Routed(S3, task, v, "completed")

\* move_to_done, lines 573-592: the name the document gets in Done/
RECURSIVE DoneName(_, _, _)
DoneName(done, f, counter) ==
    IF <<f, counter>> \in DOMAIN done THEN DoneName(done, f, counter + 1)
    ELSE <<f, counter>>

\* move_to_done storing the document under its own name whatever is there
move_to_done_Replaces(S, f) ==
    IF f \notin DOMAIN S.inbox THEN S
    ELSE [S EXCEPT !.done = WriteDoc(@, <<f, 0>>, S.inbox[f]),
                   !.inbox = RemoveDoc(@, f)]

move_to_done(S, f) ==
    IF f \notin DOMAIN S.inbox THEN S
    ELSE [S EXCEPT !.done = WriteDoc(@, DoneName(@, f, 0), S.inbox[f]),
                   !.inbox = RemoveDoc(@, f)]

(* ------------------------ silver_loop: the pass ----------------------- *)
\* run_pipeline, lines 750-764
RECURSIVE PlanAll(_, _, _, _)
PlanAll(S, tasks, i, acc) ==
    IF i > Len(tasks) THEN [S |-> S, valid |-> acc.valid, rejected |-> acc.rejected]
    ELSE IF validate_task_schema(tasks[i]) # <<>>
    THEN PlanAll(S, tasks, i + 1, [acc EXCEPT !.rejected = Append(@, tasks[i].filename)])
    ELSE PlanAll(generate_plan(S, tasks[i]), tasks, i + 1,
                 [acc EXCEPT !.valid = Append(@, tasks[i])])

\* run_pipeline, lines 770-784; the plan paths were computed at S0.now
RECURSIVE RouteAll(_, _, _, _, _, _, _)
RouteAll(S, tasks, i, planned_at, dry_run, lapse, log) ==
    IF i > Len(tasks) THEN [S |-> S, log |-> log]
    ELSE LET r == execute_task(S, tasks[i], <<tasks[i].id, planned_at>>, dry_run, lapse)
         IN  RouteAll(r.S, tasks, i + 1, planned_at, dry_run, lapse, Append(log, r.entry))

\* run_pipeline, lines 788-789
RECURSIVE ArchiveAll(_, _, _)
ArchiveAll(S, log, i) ==
    IF i > Len(log) THEN S
    ELSE ArchiveAll(IF log[i].status = "completed" THEN move_to_done(S, log[i].file) ELSE S,
                    log, i + 1)

\* CountStatus setting the counter to one instead of adding one
CountStatus_SetsOne(log, status) ==
    IF \E i \in 1..Len(log) : log[i].status = status THEN 1 ELSE 0

CountStatus(log, status) == Cardinality({i \in 1..Len(log) : log[i].status = status})

run_pipeline(S, dry_run, lapse) ==
    LET tasks == phase_analyze(S.inbox)
        planned == PlanAll(S, tasks, 1, [valid |-> <<>>, rejected |-> <<>>])
        routed == RouteAll(planned.S, planned.valid, 1, S.now, dry_run, lapse, <<>>)
    IN  [S |-> ArchiveAll(routed.S, routed.log, 1),
         analyzed |-> Len(tasks),
         rejected |-> planned.rejected,
         log |-> routed.log,
         summary |-> [processed_tasks |-> CountStatus(routed.log, "completed"),
                      pending_approval |-> CountStatus(routed.log, "pending_approval"),
                      failed_tasks |-> Len(planned.rejected) + CountStatus(routed.log, "failed"),
                      status |-> "complete"]]

(* ------------------------- the status surface ------------------------- *)
\* Company_Handbook.md and Dashboard.md.  Of the dashboard the model follows
\* the pending-tasks and pending-approvals lines of "## System Status" and
\* the lines of "## Recent Activity" and "## Alerts", newest first; a line is
\* NoneLine or an entry, written without its timestamp.  Alerts is the only
\* section of the document that holds a "- None" line.
NoneLine == [kind |-> "None"]

NewSurface ==
    [handbook |-> TRUE, dashboard |-> TRUE,
     counters |-> [pending |-> 0, approvals |-> 0],
     activity |-> <<>>, alerts |-> <<NoneLine>>]

HaltLine == [kind |-> "HALT"]
SchemaLine(f) == [kind |-> "SCHEMA FAILURE", file |-> f]
FailedLine(f) == [kind |-> "TASK FAILED", file |-> f]
RunLine(summary) ==
    [kind |-> "run complete", processed |-> summary.processed_tasks,
     pending_approval |-> summary.pending_approval, failed |-> summary.failed_tasks]
\* the message of create_approval_file about the document written as file i
ApprovalLine(d, i) ==
    [kind |-> "APPROVAL REQUIRED", risk_level |-> d.risk_level,
     action_type |-> d.action_type, target |-> d.target, file |-> i]
MailLine(e) == [kind |-> "email", recipient |-> e.recipient, status |-> e.status]

InLines(line, lines) == \E i \in 1..Len(lines) : lines[i] = line

\* str.replace(old, new, 1) on the lines of a section
ReplaceFirst(lines, old, new) ==
    LET at == CHOOSE i \in 1..Len(lines) : lines[i] = old /\ \A j \in 1..(i - 1) : lines[j] # old
    IN  [lines EXCEPT ![at] = new]

\* dashboard_alert writing the new line in place of the section
dashboard_alert_Overwrites(U, line) ==
    IF ~U.dashboard THEN U ELSE [U EXCEPT !.alerts = <<line>>]

\* silver_loop.dashboard_alert
dashboard_alert(U, line) ==
    IF ~U.dashboard THEN U
    ELSE IF InLines(NoneLine, U.alerts)
    THEN [U EXCEPT !.alerts = ReplaceFirst(@, NoneLine, line)]
    ELSE [U EXCEPT !.alerts = <<line>> \o @]

\* approval_gate._log_to_dashboard
log_to_dashboard(U, line, is_alert) ==
    LET U1 == [U EXCEPT !.activity = <<line>> \o @] IN
    IF ~U.dashboard THEN U
    ELSE IF ~is_alert THEN U1
    ELSE IF U1.alerts # <<>> /\ Head(U1.alerts) = NoneLine
    THEN [U1 EXCEPT !.alerts = <<line>> \o Tail(@)]
    ELSE IF ~(InLines(line, U1.activity) \/ InLines(line, U1.alerts))
    THEN [U1 EXCEPT !.alerts = <<line>> \o @]
    ELSE U1

\* mcp_email_server.update_dashboard
mail_update_dashboard(U, line) ==
    IF ~U.dashboard THEN U ELSE [U EXCEPT !.activity = <<line>> \o @]

\* silver_loop.update_dashboard; the files of Pending_Approval/ are counted
\* whatever their status
update_dashboard(U, S, summary) ==
    IF ~U.dashboard THEN U
    ELSE [U EXCEPT !.counters = [pending |-> Cardinality(DOMAIN S.inbox),
                                 approvals |-> Len(S.approvals)],
                   !.activity = <<RunLine(summary)>> \o @,
                   !.alerts = IF summary.failed_tasks = 0 THEN <<NoneLine>> ELSE @]

\* phase_initialize without the check of the handbook
phase_initialize_DashboardOnly(U) ==
    IF ~U.dashboard THEN [ok |-> FALSE, U |-> U] ELSE [ok |-> TRUE, U |-> U]

\* phase_initialize
phase_initialize(U) ==
    IF ~U.handbook THEN [ok |-> FALSE, U |-> dashboard_alert(U, HaltLine)]
    ELSE IF ~U.dashboard THEN [ok |-> FALSE, U |-> U]
    ELSE [ok |-> TRUE, U |-> U]

\* run_pipeline, lines 750-759: the alerts of the plan phase
RECURSIVE AlertRejected(_, _, _)
AlertRejected(U, rejected, i) ==
    IF i > Len(rejected) THEN U
    ELSE AlertRejected(dashboard_alert(U, SchemaLine(rejected[i])), rejected, i + 1)

\* what routing one task writes to the dashboard: the message of the request
\* created for it (approvals holds it as file n when one was written), or
\* the alert of run_pipeline, line 784
SurfaceOfEntry(U, e, approvals, n) ==
    IF e.status = "failed" THEN dashboard_alert(U, FailedLine(e.file))
    ELSE IF n <= Len(approvals) /\ approvals[n].for_file = e.file
    THEN log_to_dashboard(U, ApprovalLine(approvals[n], n),
                          approvals[n].risk_level \in {"medium", "high"})
    ELSE U

\* whether routing the task of entry e asked for a new request
Requested(e) ==
    e.status = "pending_approval" /\ ReasonHas("no matching", e.reason)

\* run_pipeline, lines 770-784, by the log of the pass; the requests the
\* pass created are the files from n on of the approvals it left
RECURSIVE SurfaceOfRoute(_, _, _, _, _)
SurfaceOfRoute(U, log, i, approvals, n) ==
    IF i > Len(log) THEN U
    ELSE LET wrote == Requested(log[i]) /\ n <= Len(approvals)
                      /\ approvals[n].for_file = log[i].file
         IN  SurfaceOfRoute(SurfaceOfEntry(U, log[i], approvals,
                                           IF Requested(log[i]) THEN n ELSE Len(approvals) + 1),
                            log, i + 1, approvals, IF wrote THEN n + 1 ELSE n)

Halted ==
    [analyzed |-> 0, rejected |-> <<>>, log |-> <<>>,
     summary |-> [processed_tasks |-> 0, pending_approval |-> 0,
                  failed_tasks |-> 0, status |-> "halted"]]

\* run_pipeline, lines 750-792: what the pass r writes to the surface U, the
\* approvals directory having held n documents when the pass began
Reported(U, n, r) ==
    [S |-> r.S,
     U |-> update_dashboard(
              SurfaceOfRoute(AlertRejected(U, r.rejected, 1), r.log, 1, r.S.approvals, n + 1),
              r.S, r.summary),
     pass |-> [analyzed |-> r.analyzed, rejected |-> r.rejected, log |-> r.log,
               summary |-> r.summary]]

\* run_pipeline with the status surface: the documents S and the surface U
\* it leaves, and what it returned and logged
run_pass(S, U, dry_run, lapse) ==
    IF ~phase_initialize(U).ok
    THEN [S |-> S, U |-> phase_initialize(U).U, pass |-> Halted]
    ELSE Reported(U, Len(S.approvals), run_pipeline(S, dry_run, lapse))

(* --------------------------- the email server ------------------------- *)
Recipients == {EmptyStr, Address(1), Address(2)}

\* handle_send_email, lines 195-204: the error of an invalid call
InvalidCall(recipient) == IF recipient = EmptyStr THEN "missing recipient" ELSE ""

\* Refused letting a request that is still pending through
Refused_UnlessPending(v) == ~v.approved /\ v.reason # R_PENDING

\* handle_send_email, line 208: whether the call is refused
Refused(v) == ~v.approved

\* log_email_action: the entry written to Logs/
LogEntry(recipient, status, approval_file) ==
    [recipient |-> recipient, status |-> status, approval_file |-> approval_file]

(* ------------------------------ the state ----------------------------- *)
VARIABLES
    inbox,      \* Needs_Action/: file index -> task document
    done,       \* Done/: <<file index, collision counter>> -> task document
    approvals,  \* Pending_Approval/: the documents in file-name order
    plans,      \* Plans/: <<task id, timestamp>> -> plan document
    now,        \* the wall clock, in hours
    deposited,  \* the number of task documents deposited so far
    passes,     \* the number of passes run so far
    lastOp,     \* the last operation, when it was a pass or a send_email call
    lastPass,   \* what that pass returned and logged
    router,     \* the position of a pass that runs step by step
    mailer,     \* the position of a send_email call that runs step by step
    emailLog,   \* Logs/: the entries of log_email_action, in order
    lastReply,  \* the reply of that send_email call
    acts,       \* the guarded actions performed, each with the approval
                \* document (its position) that the check before it returned
    surface,    \* Company_Handbook.md and Dashboard.md
    producers,  \* the position of each watcher thread inside write_task
    watcher     \* watcher.py: Inbox/, the registry, the loop's position

vars == <<inbox, done, approvals, plans, now, deposited, passes, lastOp, lastPass,
          router, mailer, emailLog, lastReply, acts, surface, producers, watcher>>

Store == [inbox |-> inbox, done |-> done, approvals |-> approvals, plans |-> plans,
          now |-> now]

EmptyDir == [n \in {} |-> 0]

NoPass == [analyzed |-> 0, rejected |-> <<>>, log |-> <<>>,
           summary |-> [processed_tasks |-> 0, pending_approval |-> 0,
                        failed_tasks |-> 0, status |-> "complete"]]

NoReply == [status |-> "", error |-> ""]

OtherOp == [op |-> "other"]

\* watcher_manager.main, lines 124-149: the two watcher threads
Producers == {"watcher.py", "gmail_watcher.py"}

\* no write_task call in progress; dest is the name a call has settled on
\* watcher.py before main runs: Inbox/ is empty and no registry file exists.
\* files is Inbox/, saved the registry file, registry the set main holds,
\* entry the file scan_inbox is at.  tasks gives, by file index of the task
\* document, the inbox_file of its front matter; old holds the task documents
\* whose file was swept to the archive.
StoppedWatcher ==
    [pc |-> "stopped", files |-> {}, saved |-> {}, registry |-> {}, entry |-> 0,
     tasks |-> <<>>, old |-> {}]

IdleProducers == [p \in Producers |-> [pc |-> "idle", dest |-> 0]]

\* no document read: the local variable content of mark_approval_executed
\* before line 259
NoDoc == [status |-> "unread"]

\* marking and seen belong to a call of mark_approval_executed in progress:
\* the approval file it was given and the content it read from it
IdleRouter == [pc |-> "idle", queue |-> <<>>, planned_at |-> 0, v |-> Ungated,
               analyzed |-> 0, rejected |-> <<>>, log |-> <<>>,
               marking |-> 0, seen |-> NoDoc]

IdleMailer == [pc |-> "idle", recipient |-> EmptyStr, v |-> Ungated,
               marking |-> 0, seen |-> NoDoc]

Init ==
    /\ inbox = EmptyDir
    /\ done = EmptyDir
    /\ approvals = <<>>
    /\ plans = EmptyDir
    /\ now = 0
    /\ deposited = 0
    /\ producers = IdleProducers
    /\ watcher = StoppedWatcher
    /\ passes = 0
    /\ lastOp = OtherOp
    /\ lastPass = NoPass
    /\ router = IdleRouter
    /\ mailer = IdleMailer
    /\ emailLog = <<>>
    /\ lastReply = NoReply
    /\ acts = <<>>
    /\ surface = NewSurface

\* A producer (watcher.write_task, gmail_watcher.write_task, or a person)
\* deposits a task document under a fresh, time-derived name.
Deposit(t) ==
    /\ deposited < MaxTasks
    /\ deposited' = deposited + 1
    /\ inbox' = WriteDoc(inbox, deposited + 1, NewTask(t, now))
    /\ lastOp' = OtherOp
    /\ lastPass' = NoPass
    /\ lastReply' = NoReply
    /\ UNCHANGED <<done, approvals, plans, now, passes, router, mailer, emailLog, acts, surface,
                   producers, watcher>>

\* The reviewer records a decision in a pending approval request.
HumanDecide(i, decision) ==
    /\ i \in 1..Len(approvals)
    /\ approvals[i].status = "pending"
    /\ approvals' = [approvals EXCEPT ![i].status = decision]
    /\ lastOp' = OtherOp
    /\ lastPass' = NoPass
    /\ lastReply' = NoReply
    /\ UNCHANGED <<inbox, done, plans, now, deposited, passes, router, mailer, emailLog, acts, surface,
                   producers, watcher>>

Tick(d) ==
    /\ now + d <= MaxTime
    /\ now' = now + d
    /\ lastOp' = OtherOp
    /\ lastPass' = NoPass
    /\ lastReply' = NoReply
    /\ UNCHANGED <<inbox, done, approvals, plans, deposited, passes, router, mailer,
                   emailLog, acts, surface, producers, watcher>>

\* silver_loop.main: one pass, run to its end
RunPipeline(dry_run, lapse) ==
    /\ passes < MaxPasses
    /\ \E r \in {run_pass(Store, surface, dry_run, lapse)} :
          /\ r.S.now <= MaxTime
          /\ passes' = passes + 1
          /\ inbox' = r.S.inbox
          /\ done' = r.S.done
          /\ approvals' = r.S.approvals
          /\ plans' = r.S.plans
          /\ now' = r.S.now
          /\ surface' = r.U
          /\ lastOp' = [op |-> "run_pipeline", dry_run |-> dry_run]
          /\ lastPass' = r.pass
          /\ lastReply' = NoReply
          /\ UNCHANGED <<deposited, router, mailer, emailLog, acts, producers, watcher>>

\* The vault as it may be found: the handbook or the dashboard may be missing.
InitSurface ==
    /\ inbox = EmptyDir
    /\ done = EmptyDir
    /\ approvals = <<>>
    /\ plans = EmptyDir
    /\ now = 0
    /\ deposited = 0
    /\ producers = IdleProducers
    /\ watcher = StoppedWatcher
    /\ passes = 0
    /\ lastOp = OtherOp
    /\ lastPass = NoPass
    /\ router = IdleRouter
    /\ mailer = IdleMailer
    /\ emailLog = <<>>
    /\ lastReply = NoReply
    /\ acts = <<>>
    /\ \E h, b \in BOOLEAN : surface = [NewSurface EXCEPT !.handbook = h, !.dashboard = b]

Next ==
    \/ \E t \in Deposited : Deposit(t)
    \/ \E i \in 1..Len(approvals), decision \in {"approved", "rejected", "revision_requested"} :
          HumanDecide(i, decision)
    \/ \E d \in TickLen : Tick(d)
    \/ \E dry_run \in BOOLEAN, lapse \in {0} \cup TickLen : RunPipeline(dry_run, lapse)

Spec == Init /\ [][Next]_vars

SpecSurface == InitSurface /\ [][Next]_vars

(* ------------------- the pass under document I/O errors --------------- *)
\* The I/O operations of execute_task on the documents of one task: reading
\* the task document (line 497), writing it back (line 534), and writing the
\* approval request (approval_gate.py, lines 164-170).
FaultPoints == {"read", "write", "request"}

\* execute_task where the operation `at` fails with OSError: the handlers
\* of lines 499 and 536 return failed; the OSError that create_approval_file
\* re-raises at line 176 is caught nowhere in execute_task and leaves it as
\* an exception.  v is the verdict of the check at line 457 and sound what
\* execute_task does when no operation fails.
FaultedTask(S, task, lapse, at, v, sound) ==
    LET route == IF NeedsGate(task.type) THEN RouteOf(v) ELSE "execute" IN
    IF route = "request" /\ at = "request"
    THEN [S |-> S, entry |-> Routed(S, task, v, "raised").entry,
          raised |-> TRUE, io_error |-> TRUE]
    ELSE IF route = "execute" /\ at \in {"read", "write"}
    THEN [S |-> [S EXCEPT !.now = @ + lapse],
          entry |-> Routed(S, task, v, "failed").entry,
          raised |-> FALSE, io_error |-> TRUE]
    ELSE [S |-> sound.S, entry |-> sound.entry, raised |-> FALSE, io_error |-> FALSE]

\* execute_task of a pass in which the operation fault.at fails for the
\* documents of the task of file fault.file
execute_task_io(S, task, plan_path, lapse, fault) ==
    FaultedTask(S, task, lapse,
                IF fault.file = task.filename THEN fault.at ELSE "none",
                IF NeedsGate(task.type)
                THEN check_approval(S.approvals, ACTION_MAP(task.type),
                                    FileName(task.filename), S.now)
                ELSE Ungated,
                execute_task(S, task, plan_path, FALSE, lapse))

\* run_pipeline, lines 770-784: the loop ends where execute_task raises
RECURSIVE RouteAllIO(_, _, _, _, _, _, _)
RECURSIVE RouteNextIO(_, _, _, _, _, _, _)
RouteNextIO(tasks, i, planned_at, lapse, fault, acc, r) ==
    IF r.raised
    THEN [S |-> r.S, log |-> acc.log, raised |-> TRUE, io_error |-> TRUE]
    ELSE RouteAllIO(r.S, tasks, i + 1, planned_at, lapse, fault,
                    [log |-> Append(acc.log, r.entry),
                     io_error |-> acc.io_error \/ r.io_error])

RouteAllIO(S, tasks, i, planned_at, lapse, fault, acc) ==
    IF i > Len(tasks)
    THEN [S |-> S, log |-> acc.log, raised |-> FALSE, io_error |-> acc.io_error]
    ELSE RouteNextIO(tasks, i, planned_at, lapse, fault, acc,
                     execute_task_io(S, tasks[i], <<tasks[i].id, planned_at>>, lapse, fault))

\* run_pipeline, lines 786-806, after the route phase: an exception leaves
\* run_pipeline and main (lines 809-818) before the archive phase, the
\* dashboard update and the summary; the pass then has status "aborted" here.
ReportedIO(U, n, rejected, routed) ==
    LET summary == [processed_tasks |-> CountStatus(routed.log, "completed"),
                    pending_approval |-> CountStatus(routed.log, "pending_approval"),
                    failed_tasks |-> Len(rejected) + CountStatus(routed.log, "failed"),
                    status |-> IF routed.raised THEN "aborted" ELSE "complete"]
        U2 == SurfaceOfRoute(AlertRejected(U, rejected, 1), routed.log, 1,
                             routed.S.approvals, n + 1)
    IN  IF routed.raised
        THEN [S |-> routed.S, U |-> U2,
              pass |-> [rejected |-> rejected, log |-> routed.log, summary |-> summary,
                        io_error |-> routed.io_error]]
        ELSE [S |-> ArchiveAll(routed.S, routed.log, 1),
              U |-> update_dashboard(U2, ArchiveAll(routed.S, routed.log, 1), summary),
              pass |-> [rejected |-> rejected, log |-> routed.log, summary |-> summary,
                        io_error |-> routed.io_error]]

\* run_pipeline, lines 745-784, from the plan phase on
PlannedIO(S, U, lapse, fault, planned) ==
    ReportedIO(U, Len(S.approvals), planned.rejected,
               RouteAllIO(planned.S, planned.valid, 1, S.now, lapse, fault,
                          [log |-> <<>>, io_error |-> FALSE]))

\* run_pipeline under the fault
run_pass_io(S, U, lapse, fault) ==
    PlannedIO(S, U, lapse, fault,
              PlanAll(S, phase_analyze(S.inbox), 1, [valid |-> <<>>, rejected |-> <<>>]))

RunPipelineIO(lapse, fault) ==
    /\ passes < MaxPasses
    /\ \E r \in {run_pass_io(Store, surface, lapse, fault)} :
          /\ phase_initialize(surface).ok
          /\ r.S.now <= MaxTime
          /\ passes' = passes + 1
          /\ inbox' = r.S.inbox
          /\ done' = r.S.done
          /\ approvals' = r.S.approvals
          /\ plans' = r.S.plans
          /\ now' = r.S.now
          /\ surface' = r.U
          /\ lastOp' = [op |-> "run_pipeline_io", dry_run |-> FALSE, lapse |-> lapse, fault |-> fault]
          /\ lastPass' = [analyzed |-> Cardinality(DOMAIN inbox), rejected |-> r.pass.rejected,
                          log |-> r.pass.log, summary |-> r.pass.summary,
                          io_error |-> r.pass.io_error]
          /\ lastReply' = NoReply
          /\ UNCHANGED <<deposited, router, mailer, emailLog, acts, producers, watcher>>

NextIO ==
    \/ \E t \in Deposited : Deposit(t)
    \/ \E i \in 1..Len(approvals), decision \in {"approved", "rejected", "revision_requested"} :
          HumanDecide(i, decision)
    \/ \E d \in TickLen : Tick(d)
    \/ \E lapse \in {0} \cup TickLen, f \in DOMAIN inbox, at \in FaultPoints :
          RunPipelineIO(lapse, [file |-> f, at |-> at])

SpecIO == Init /\ [][NextIO]_vars

(* ------------------------ classify_task, called alone ----------------- *)
ClassifyTypes == {"", "email", "message", "alert", "file_event", "finance", "marketing", "note"}
ClassifySources == {"gmail_watcher.py", "watcher.py", "manual", "email_bridge.py"}
ClassifyDescs == {D_GMAIL, D_MAILTO, D_INVOICE, D_LINKEDIN, D_WATCHER, D_FILEJOB, D_NOTE, D_MIXED}

Classify(ftype, source, desc) ==
    /\ lastOp' = [op |-> "classify_task", ftype |-> ftype, source |-> source, desc |-> desc,
                  result |-> classify_task(ftype, source, desc)]
    /\ UNCHANGED <<inbox, done, approvals, plans, now, deposited, passes, lastPass, router,
                   mailer, emailLog, lastReply, acts, surface, producers, watcher>>

NextClassify ==
    \E ftype \in ClassifyTypes, source \in ClassifySources, desc \in ClassifyDescs :
       Classify(ftype, source, desc)

SpecClassify == Init /\ [][NextClassify]_vars

(* ------------- the pipeline and the email server, interleaved ---------- *)
\* run_pipeline, lines 733-764: initialize, analyze, plan
RouterStart ==
    LET tasks == phase_analyze(inbox)
        planned == PlanAll(Store, tasks, 1, [valid |-> <<>>, rejected |-> <<>>])
    IN  /\ router.pc = "idle"
        /\ passes < MaxPasses
        /\ phase_initialize(surface).ok
        /\ plans' = planned.S.plans
        /\ surface' = AlertRejected(surface, planned.rejected, 1)
        /\ router' = [pc |-> "route", queue |-> planned.valid, planned_at |-> now,
                      v |-> Ungated, analyzed |-> Len(tasks),
                      rejected |-> planned.rejected, log |-> <<>>,
                      marking |-> 0, seen |-> NoDoc]
        /\ lastOp' = OtherOp
        /\ lastPass' = NoPass
        /\ lastReply' = NoReply
        /\ UNCHANGED <<inbox, done, approvals, now, deposited, passes, mailer, emailLog, acts, producers, watcher>>

\* execute_task, lines 437-489, for the next task of the batch
RouterCheck ==
    LET task == Head(router.queue)
        v == IF NeedsGate(task.type)
             THEN check_approval(approvals, ACTION_MAP(task.type),
                                 FileName(task.filename), now)
             ELSE Ungated
        route == IF NeedsGate(task.type) THEN RouteOf(v) ELSE "execute"
        status == IF route \in {"request", "await"} THEN "pending_approval" ELSE "failed"
    IN  /\ router.pc = "route"
        /\ router.queue # <<>>
        /\ IF route = "execute"
           THEN /\ router' = [router EXCEPT !.pc = "write", !.v = v]
                /\ UNCHANGED <<approvals, surface>>
           ELSE /\ router' = [router EXCEPT
                                !.queue = Tail(@),
                                !.log = Append(@, Routed(Store, task, v, status).entry)]
                /\ approvals' = IF route = "request"
                                THEN RequestApproval(Store, task).approvals
                                ELSE approvals
                /\ surface' = SurfaceOfEntry(surface, Routed(Store, task, v, status).entry,
                                             approvals',
                                             IF route = "request" THEN Len(approvals) + 1
                                             ELSE Len(approvals') + 1)
        /\ lastOp' = OtherOp
        /\ lastPass' = NoPass
        /\ lastReply' = NoReply
        /\ UNCHANGED <<inbox, done, plans, now, deposited, passes, mailer, emailLog, acts, producers, watcher>>

\* execute_task, lines 491-538: the guarded action
RouterWrite ==
    LET task == Head(router.queue) IN
    /\ router.pc = "write"
    /\ inbox' = WriteResult(Store, task).inbox
    /\ acts' = IF NeedsGate(task.type)
               THEN Append(acts, [kind |-> "task", approved |-> router.v.approved,
                                  by |-> router.v.file])
               ELSE acts
    /\ router' = [router EXCEPT !.pc = "mark"]
    /\ lastOp' = OtherOp
    /\ lastPass' = NoPass
    /\ lastReply' = NoReply
    /\ UNCHANGED <<done, approvals, plans, now, deposited, passes, mailer, emailLog, surface,
                   producers, watcher>>

\* execute_task, lines 540-567
RouterMark ==
    LET task == Head(router.queue)
        S3 == CompletePlan(MarkGoverning(Store, task), <<task.id, router.planned_at>>)
    IN  /\ router.pc = "mark"
        /\ approvals' = S3.approvals
        /\ plans' = S3.plans
        /\ router' = [router EXCEPT
                        !.pc = "route",
                        !.queue = Tail(@),
                        !.log = Append(@, Routed(Store, task, router.v, "completed").entry)]
        /\ lastOp' = OtherOp
        /\ lastPass' = NoPass
        /\ lastReply' = NoReply
        /\ UNCHANGED <<inbox, done, now, deposited, passes, mailer, emailLog, acts, surface, producers, watcher>>

\* run_pipeline, lines 786-806
RouterArchive ==
    LET S5 == ArchiveAll(Store, router.log, 1) IN
    /\ router.pc = "route"
    /\ router.queue = <<>>
    /\ inbox' = S5.inbox
    /\ done' = S5.done
    /\ passes' = passes + 1
    /\ lastOp' = [op |-> "run_pipeline", dry_run |-> FALSE]
    /\ lastPass' =
         [analyzed |-> router.analyzed, rejected |-> router.rejected, log |-> router.log,
          summary |-> [processed_tasks |-> CountStatus(router.log, "completed"),
                       pending_approval |-> CountStatus(router.log, "pending_approval"),
                       failed_tasks |-> Len(router.rejected) + CountStatus(router.log, "failed"),
                       status |-> "complete"]]
    /\ surface' = update_dashboard(surface, S5, lastPass'.summary)
    /\ router' = IdleRouter
    /\ lastReply' = NoReply
    /\ UNCHANGED <<approvals, plans, now, deposited, mailer, emailLog, acts, producers, watcher>>

\* handle_send_email, lines 187-223: validation and the approval check
MailCheck(recipient) ==
    LET v == check_approval(approvals, "send_email", recipient, now) IN
    /\ mailer.pc = "idle"
    /\ Len(emailLog) < MaxSends
    /\ IF InvalidCall(recipient) # ""
       THEN /\ lastReply' = [status |-> "failed", error |-> InvalidCall(recipient)]
            /\ UNCHANGED <<mailer, emailLog, surface>>
       ELSE IF Refused(v)
       THEN /\ lastReply' = [status |-> "failed", error |-> "no_valid_approval"]
            /\ emailLog' = Append(emailLog, LogEntry(recipient, "blocked", 0))
            /\ surface' = mail_update_dashboard(surface,
                                                MailLine(LogEntry(recipient, "blocked", 0)))
            /\ UNCHANGED mailer
       ELSE /\ mailer' = [pc |-> "send", recipient |-> recipient, v |-> v,
                           marking |-> 0, seen |-> NoDoc]
            /\ lastReply' = NoReply
            /\ UNCHANGED <<emailLog, surface>>
    /\ lastOp' = [op |-> "send_email", recipient |-> recipient,
                  approved |-> v.approved, sent |-> FALSE]
    /\ lastPass' = NoPass
    /\ UNCHANGED <<inbox, done, approvals, plans, now, deposited, passes, router, acts, producers, watcher>>

\* handle_send_email, lines 226-256: send_email_smtp and what follows it
MailSend(smtp_ok) ==
    /\ mailer.pc = "send"
    /\ IF smtp_ok
       THEN /\ acts' = Append(acts, [kind |-> "email", approved |-> mailer.v.approved,
                                     by |-> mailer.v.file])
            /\ emailLog' = Append(emailLog, LogEntry(mailer.recipient, "success", mailer.v.file))
            /\ mailer' = [mailer EXCEPT !.pc = "mark"]
            /\ lastReply' = NoReply
            /\ UNCHANGED surface
       ELSE /\ emailLog' = Append(emailLog, LogEntry(mailer.recipient, "failed", mailer.v.file))
            /\ surface' = mail_update_dashboard(
                              surface,
                              MailLine(LogEntry(mailer.recipient, "failed", mailer.v.file)))
            /\ mailer' = IdleMailer
            /\ lastReply' = [status |-> "failed", error |-> "smtp"]
            /\ UNCHANGED acts
    /\ lastOp' = [op |-> "send_email", recipient |-> mailer.recipient,
                  approved |-> mailer.v.approved, sent |-> smtp_ok]
    /\ lastPass' = NoPass
    /\ UNCHANGED <<inbox, done, approvals, plans, now, deposited, passes, router, producers, watcher>>

\* handle_send_email, lines 233-242
MailMark ==
    /\ mailer.pc = "mark"
    /\ approvals' = mark_approval_executed(approvals, mailer.v.file)
    /\ surface' = mail_update_dashboard(
                      surface, MailLine(LogEntry(mailer.recipient, "success", mailer.v.file)))
    /\ mailer' = IdleMailer
    /\ lastReply' = [status |-> "success", error |-> ""]
    /\ lastOp' = OtherOp
    /\ lastPass' = NoPass
    /\ UNCHANGED <<inbox, done, plans, now, deposited, passes, router, emailLog, acts, producers, watcher>>

\* the email tasks the interleaved runs start from
MailTasks == {T_GMAIL, T_MAILTO}

\* The vault with one email task deposited and no pass run yet.
InitConc ==
    /\ \E t \in MailTasks : inbox = WriteDoc(EmptyDir, 1, NewTask(t, 0))
    /\ done = EmptyDir
    /\ approvals = <<>>
    /\ plans = EmptyDir
    /\ now = 0
    /\ deposited = 1
    /\ producers = IdleProducers
    /\ watcher = StoppedWatcher
    /\ passes = 0
    /\ lastOp = OtherOp
    /\ lastPass = NoPass
    /\ router = IdleRouter
    /\ mailer = IdleMailer
    /\ emailLog = <<>>
    /\ lastReply = NoReply
    /\ acts = <<>>
    /\ surface = NewSurface

NextConc ==
    \/ \E i \in 1..Len(approvals), decision \in {"approved", "rejected", "revision_requested"} :
          HumanDecide(i, decision)
    \/ \E d \in TickLen : Tick(d)
    \/ RouterStart
    \/ RouterCheck
    \/ RouterWrite
    \/ RouterMark
    \/ RouterArchive
    \/ \E recipient \in Recipients : MailCheck(recipient)
    \/ \E smtp_ok \in BOOLEAN : MailSend(smtp_ok)
    \/ MailMark

SpecConc == InitConc /\ [][NextConc]_vars

(* ---------- mark_approval_executed, one file operation at a time ------- *)
\* open(fpath, "w"), line 269: the file is empty until the write
EmptyFile(d) ==
    [d EXCEPT !.action_type = "", !.status = "", !.target = EmptyStr,
              !.desc = <<>>, !.source_task = EmptyStr]

\* re.sub, lines 262-267, on the content read
MarkedContent(d) == IF d.status = "approved" THEN [d EXCEPT !.status = "executed"] ELSE d

\* execute_task, lines 540-546, and mark_approval_executed, lines 258-260:
\* the second check and the read of the approval file
RouterMarkRead ==
    LET task == Head(router.queue)
        v == check_approval(approvals, ACTION_MAP(task.type), FileName(task.filename), now)
    IN  /\ router.pc = "mark"
        /\ NeedsGate(task.type) /\ v.approved
        /\ router' = [router EXCEPT !.pc = "mark_open", !.marking = v.file,
                                    !.seen = approvals[v.file]]
        /\ lastOp' = OtherOp
        /\ lastPass' = NoPass
        /\ lastReply' = NoReply
        /\ UNCHANGED <<inbox, done, approvals, plans, now, deposited, passes, mailer,
                       emailLog, acts, surface, producers, watcher>>

\* mark_approval_executed, line 269: the file is opened for writing
RouterMarkOpen ==
    /\ router.pc = "mark_open"
    /\ approvals' = [approvals EXCEPT ![router.marking] = EmptyFile(@)]
    /\ router' = [router EXCEPT !.pc = "mark_write"]
    /\ lastOp' = [op |-> "open_w", by |-> "router", file |-> router.marking,
                  seen |-> router.seen]
    /\ lastPass' = NoPass
    /\ lastReply' = NoReply
    /\ UNCHANGED <<inbox, done, plans, now, deposited, passes, mailer, emailLog, acts, surface,
                   producers, watcher>>

\* mark_approval_executed, line 270, and execute_task, lines 548-567
RouterMarkWrite ==
    LET task == Head(router.queue)
        S3 == CompletePlan(Store, <<task.id, router.planned_at>>)
    IN  /\ router.pc = "mark_write"
        /\ approvals' = [approvals EXCEPT ![router.marking] = MarkedContent(router.seen)]
        /\ plans' = S3.plans
        /\ router' = [router EXCEPT
                        !.pc = "route",
                        !.queue = Tail(@),
                        !.log = Append(@, Routed(Store, task, router.v, "completed").entry),
                        !.marking = 0, !.seen = NoDoc]
        /\ lastOp' = OtherOp
        /\ lastPass' = NoPass
        /\ lastReply' = NoReply
        /\ UNCHANGED <<inbox, done, now, deposited, passes, mailer, emailLog, acts, surface, producers, watcher>>

\* execute_task, lines 540-567, when the second check approves nothing
RouterMarkSkip ==
    LET task == Head(router.queue)
        v == check_approval(approvals, ACTION_MAP(task.type), FileName(task.filename), now)
    IN  /\ router.pc = "mark"
        /\ ~(NeedsGate(task.type) /\ v.approved)
        /\ RouterMark

\* handle_send_email, line 233, and mark_approval_executed, lines 255-260
MailMarkRead ==
    /\ mailer.pc = "mark"
    /\ mailer.v.file \in 1..Len(approvals)
    /\ mailer' = [mailer EXCEPT !.pc = "mark_open", !.marking = mailer.v.file,
                                !.seen = approvals[mailer.v.file]]
    /\ lastOp' = OtherOp
    /\ lastPass' = NoPass
    /\ lastReply' = NoReply
    /\ UNCHANGED <<inbox, done, approvals, plans, now, deposited, passes, router,
                   emailLog, acts, surface, producers, watcher>>

\* mark_approval_executed, line 269
MailMarkOpen ==
    /\ mailer.pc = "mark_open"
    /\ approvals' = [approvals EXCEPT ![mailer.marking] = EmptyFile(@)]
    /\ mailer' = [mailer EXCEPT !.pc = "mark_write"]
    /\ lastOp' = [op |-> "open_w", by |-> "mailer", file |-> mailer.marking,
                  seen |-> mailer.seen]
    /\ lastPass' = NoPass
    /\ lastReply' = NoReply
    /\ UNCHANGED <<inbox, done, plans, now, deposited, passes, router, emailLog, acts, surface,
                   producers, watcher>>

\* mark_approval_executed, line 270, and handle_send_email, lines 234-242
MailMarkWrite ==
    /\ mailer.pc = "mark_write"
    /\ approvals' = [approvals EXCEPT ![mailer.marking] = MarkedContent(mailer.seen)]
    /\ surface' = mail_update_dashboard(
                      surface, MailLine(LogEntry(mailer.recipient, "success", mailer.v.file)))
    /\ mailer' = IdleMailer
    /\ lastReply' = [status |-> "success", error |-> ""]
    /\ lastOp' = OtherOp
    /\ lastPass' = NoPass
    /\ UNCHANGED <<inbox, done, plans, now, deposited, passes, router, emailLog, acts, producers, watcher>>

\* The reviewer withdraws an approval that was given.
HumanRevise(i) ==
    /\ i \in 1..Len(approvals)
    /\ approvals[i].status = "approved"
    /\ approvals' = [approvals EXCEPT ![i].status = "rejected"]
    /\ lastOp' = OtherOp
    /\ lastPass' = NoPass
    /\ lastReply' = NoReply
    /\ UNCHANGED <<inbox, done, plans, now, deposited, passes, router, mailer, emailLog,
                   acts, surface, producers, watcher>>

NextMark ==
    \/ \E i \in 1..Len(approvals) : HumanDecide(i, "approved")
    \/ \E i \in 1..Len(approvals) : HumanRevise(i)
    \/ RouterStart
    \/ RouterCheck
    \/ RouterWrite
    \/ RouterMarkRead
    \/ RouterMarkOpen
    \/ RouterMarkWrite
    \/ RouterMarkSkip
    \/ RouterArchive
    \/ \E recipient \in Recipients : MailCheck(recipient)
    \/ \E smtp_ok \in BOOLEAN : MailSend(smtp_ok)
    \/ MailMarkRead
    \/ MailMarkOpen
    \/ MailMarkWrite

SpecMark == InitConc /\ [][NextMark]_vars

(* ------------------ the two watchers writing task documents ----------- *)
\* what each watcher writes: watcher.build_task_content, gmail_watcher.build_email_task
ProducerTask(p) == IF p = "watcher.py" THEN T_WATCHER ELSE T_GMAIL

\* write_task, watcher.py lines 143-152 and gmail_watcher.py lines 194-203:
\* the first name of the clock second that no document of the inbox has.
\* Within one clock second the names TASK_<second>, TASK_<second>_1, ... are
\* the file indices 1, 2, ...
FreeName(dir) ==
    CHOOSE i \in 1..(Cardinality(DOMAIN dir) + 1) :
        i \notin DOMAIN dir /\ \A j \in 1..(i - 1) : j \in DOMAIN dir

\* write_task up to the end of the collision loop
ProducerName(p) ==
    /\ producers[p].pc = "idle"
    /\ deposited + Cardinality({q \in Producers : producers[q].pc = "named"}) < MaxTasks
    /\ producers' = [producers EXCEPT ![p] = [pc |-> "named", dest |-> FreeName(inbox)]]
    /\ lastOp' = OtherOp
    /\ lastPass' = NoPass
    /\ lastReply' = NoReply
    /\ UNCHANGED <<inbox, done, approvals, plans, now, deposited, passes, router, mailer,
                   emailLog, acts, surface, watcher>>

\* write_task, watcher.py lines 154-162 and gmail_watcher.py lines 205-213:
\* the document is written to a temporary file and moved to the name
ProducerMove(p) ==
    /\ producers[p].pc = "named"
    /\ inbox' = WriteDoc(inbox, producers[p].dest, NewTask(ProducerTask(p), now))
    /\ deposited' = deposited + 1
    /\ producers' = [producers EXCEPT ![p] = [pc |-> "idle", dest |-> 0]]
    /\ lastOp' = [op |-> "write_task", by |-> p, dest |-> producers[p].dest]
    /\ lastPass' = NoPass
    /\ lastReply' = NoReply
    /\ UNCHANGED <<done, approvals, plans, now, passes, router, mailer, emailLog, acts,
                   surface, watcher>>

\* Both watchers and the pipeline at work within one clock second.
NextProducers ==
    \/ \E p \in Producers : ProducerName(p)
    \/ \E p \in Producers : ProducerMove(p)
    \/ \E i \in 1..Len(approvals), decision \in {"approved", "rejected"} :
          HumanDecide(i, decision)
    \/ RunPipeline(FALSE, 0)

SpecProducers == Init /\ [][NextProducers]_vars

(* ------------------ the filesystem watcher, step by step --------------- *)
\* the names of the files a person deposits in Inbox/
InboxNames == {1, 2}

\* A person deposits file x in Inbox/.
DropFile(x) ==
    /\ x \notin watcher.files
    /\ watcher' = [watcher EXCEPT !.files = @ \cup {x}]
    /\ lastOp' = OtherOp
    /\ lastPass' = NoPass
    /\ lastReply' = NoReply
    /\ UNCHANGED <<inbox, done, approvals, plans, now, deposited, passes, router, mailer,
                   emailLog, acts, surface, producers>>

\* main, line 339: load_registry reads the registry file
WatcherStart ==
    /\ watcher.pc = "stopped"
    /\ watcher' = [watcher EXCEPT !.pc = "scan", !.registry = watcher.saved]
    /\ lastOp' = OtherOp
    /\ lastPass' = NoPass
    /\ lastReply' = NoReply
    /\ UNCHANGED <<inbox, done, approvals, plans, now, deposited, passes, router, mailer,
                   emailLog, acts, surface, producers>>

\* scan_inbox, lines 304-317: the next entry of Inbox/, in sorted order, that
\* the registry does not hold, and write_task for it
ScanWrite ==
    LET unseen == watcher.files \ watcher.registry
        x == CHOOSE e \in unseen : \A o \in unseen : e <= o
    IN  /\ watcher.pc = "scan"
        /\ unseen # {}
        /\ deposited < MaxTasks
        /\ inbox' = WriteDoc(inbox, deposited + 1, NewTask(T_WATCHER, now))
        /\ deposited' = deposited + 1
        /\ watcher' = [watcher EXCEPT !.pc = "save", !.entry = x, !.tasks = Append(@, x)]
        /\ lastOp' = [op |-> "scan_write", file |-> x]
        /\ lastPass' = NoPass
        /\ lastReply' = NoReply
        /\ UNCHANGED <<done, approvals, plans, now, passes, router, mailer, emailLog, acts,
                       surface, producers>>

\* scan_inbox, lines 318-319: registry.add and save_registry
ScanSave ==
    /\ watcher.pc = "save"
    /\ watcher' = [watcher EXCEPT !.pc = "scan", !.entry = 0,
                                  !.registry = @ \cup {watcher.entry},
                                  !.saved = watcher.registry \cup {watcher.entry}]
    /\ lastOp' = OtherOp
    /\ lastPass' = NoPass
    /\ lastReply' = NoReply
    /\ UNCHANGED <<inbox, done, approvals, plans, now, deposited, passes, router, mailer,
                   emailLog, acts, surface, producers>>

\* sweep_completed, lines 244-289: the files of Inbox/ that a completed task document of
\* Done/ names are moved to Done/ and leave the registry
Sweep ==
    LET swept == {x \in watcher.files :
                     \E k \in DOMAIN done :
                        /\ done[k].status = "completed"
                        /\ k[1] \in 1..Len(watcher.tasks)
                        /\ watcher.tasks[k[1]] = x}
    IN  /\ watcher.pc = "scan"
        /\ watcher.files \ watcher.registry = {}
        /\ watcher' = [watcher EXCEPT
                          !.files = @ \ swept,
                          !.registry = @ \ swept,
                          !.saved = IF swept = {} THEN @ ELSE watcher.registry \ swept,
                          !.old = @ \cup {t \in 1..Len(watcher.tasks) : watcher.tasks[t] \in swept}]
        /\ lastOp' = [op |-> "sweep_completed", swept |-> swept]
        /\ lastPass' = NoPass
        /\ lastReply' = NoReply
        /\ UNCHANGED <<inbox, done, approvals, plans, now, deposited, passes, router, mailer,
                       emailLog, acts, surface, producers>>

\* main, lines 347-354: the watcher is stopped, wherever it is
WatcherStop ==
    /\ watcher.pc # "stopped"
    /\ watcher' = [watcher EXCEPT !.pc = "stopped", !.registry = {}, !.entry = 0]
    /\ lastOp' = OtherOp
    /\ lastPass' = NoPass
    /\ lastReply' = NoReply
    /\ UNCHANGED <<inbox, done, approvals, plans, now, deposited, passes, router, mailer,
                   emailLog, acts, surface, producers>>

NextWatcher ==
    \/ \E x \in InboxNames : DropFile(x)
    \/ WatcherStart
    \/ ScanWrite
    \/ ScanSave
    \/ Sweep
    \/ WatcherStop
    \/ \E i \in 1..Len(approvals) : HumanDecide(i, "approved")
    \/ RunPipeline(FALSE, 0)

SpecWatcher == Init /\ [][NextWatcher]_vars

(* ------------------- the approval gate, called directly ---------------- *)
\* what mark_approval_executed returns: False at line 256 for an absent
\* file, True at line 271 once the file was rewritten, whatever its status
MarkReturns(apps, i) == i \in 1..Len(apps)

GateActions == {"", "send_email", "financial_transaction"}
GateDescriptions == {<<>>, <<D_MAILTO>>}
GateTargets == {EmptyStr, FileName(1), Address(1)}
GateRisks == {"low", "medium", "high", "critical"}

\* approval_gate.create_approval_file, called with source_task left at its
\* default
GateCreate(action_type, desc, target, risk_level) ==
    /\ Len(approvals) < MaxRequests
    /\ approvals' = create_approval_file(approvals, action_type, desc, target, risk_level,
                                         <<"direct invocation", 0>>, now)
    /\ surface' = IF Len(approvals') > Len(approvals)
                   THEN log_to_dashboard(
                           surface, ApprovalLine(approvals'[Len(approvals')], Len(approvals')),
                           approvals'[Len(approvals')].risk_level \in {"medium", "high"})
                   ELSE surface
    /\ lastOp' = [op |-> "create_approval_file", risk_level |-> risk_level,
                  created |-> Len(approvals') > Len(approvals),
                  action_type |-> action_type, desc |-> desc, target |-> target,
                  returned |-> CreateReturns(action_type, desc, target)]
    /\ UNCHANGED <<inbox, done, plans, now, deposited, passes, lastPass, router, mailer,
                   emailLog, lastReply, acts, producers, watcher>>

\* approval_gate.check_approval
GateCheck(action_type, target) ==
    /\ lastOp' = [op |-> "check_approval", action_type |-> action_type, target |-> target,
                  v |-> check_approval(approvals, action_type, target, now)]
    /\ UNCHANGED <<inbox, done, approvals, plans, now, deposited, passes, lastPass, router,
                   mailer, emailLog, lastReply, acts, surface, producers, watcher>>

\* approval_gate.mark_approval_executed; file Len(approvals) + 1 is absent
GateMark(i) ==
    /\ approvals' = mark_approval_executed(approvals, i)
    /\ lastOp' = [op |-> "mark_approval_executed", file |-> i,
                  returned |-> MarkReturns(approvals, i)]
    /\ UNCHANGED <<inbox, done, plans, now, deposited, passes, lastPass, router, mailer,
                   emailLog, lastReply, acts, surface, producers, watcher>>

NextGate ==
    \/ \E a \in GateActions, desc \in GateDescriptions, t \in GateTargets \ {Address(1)},
          r \in GateRisks :
          GateCreate(a, desc, t, r)
    \/ \E i \in 1..Len(approvals), decision \in {"approved", "rejected", "revision_requested"} :
          HumanDecide(i, decision)
    \/ \E d \in TickLen : Tick(d)
    \/ \E a \in GateActions \ {""}, t \in GateTargets : GateCheck(a, t)
    \/ \E i \in 1..(Len(approvals) + 1) : GateMark(i)

SpecGate == Init /\ [][NextGate]_vars

(* ------------- approval documents with a damaged deadline -------------- *)
\* A person editing approval document i loses or garbles its expires line.
HumanDamage(i) ==
    /\ i \in 1..Len(approvals)
    /\ approvals[i].expires # NoDeadline
    /\ approvals' = [approvals EXCEPT ![i].expires = NoDeadline]
    /\ lastOp' = OtherOp
    /\ lastPass' = NoPass
    /\ lastReply' = NoReply
    /\ UNCHANGED <<inbox, done, plans, now, deposited, passes, router, mailer, emailLog,
                   acts, surface, producers, watcher>>

NextDeadline ==
    \/ \E r \in GateRisks : GateCreate("send_email", <<D_MAILTO>>, FileName(1), r)
    \/ \E i \in 1..Len(approvals), decision \in {"approved", "rejected", "revision_requested"} :
          HumanDecide(i, decision)
    \/ \E i \in 1..Len(approvals) : HumanDamage(i)
    \/ \E d \in TickLen : Tick(d)
    \/ GateCheck("send_email", FileName(1))

SpecDeadline == Init /\ [][NextDeadline]_vars

(* ------------------- a person working in the vault by hand ------------- *)
\* the task documents a person writes by hand
ManualTasks == {T_INVOICE, T_FILEJOB}

\* A person puts a task document into the inbox under a name that a document
\* archived earlier had (a restored or copied file).
DepositNamed(t, f) ==
    /\ deposited < MaxTasks
    /\ f \in 1..deposited
    /\ f \notin DOMAIN inbox
    /\ deposited' = deposited + 1
    /\ inbox' = WriteDoc(inbox, f, NewTask(t, now))
    /\ lastOp' = OtherOp
    /\ lastPass' = NoPass
    /\ lastReply' = NoReply
    /\ UNCHANGED <<done, approvals, plans, now, passes, router, mailer, emailLog, acts, surface,
                   producers, watcher>>

\* A person writes a task document by hand and puts the status in quotes.
DepositWritten(t) ==
    /\ deposited < MaxTasks
    /\ deposited' = deposited + 1
    /\ inbox' = WriteDoc(inbox, deposited + 1, [NewTask(t, now) EXCEPT !.status = QuotedPending])
    /\ lastOp' = OtherOp
    /\ lastPass' = NoPass
    /\ lastReply' = NoReply
    /\ UNCHANGED <<done, approvals, plans, now, passes, router, mailer, emailLog, acts, surface,
                   producers, watcher>>

\* The reviewer writes a fresh approval document for the gated task f,
\* already approved; named by its creation time, it sorts after the
\* documents that exist.
HumanCreate(f) ==
    LET task == AnalyzedTask(inbox, f, 1)
        d == ApprovalDoc(ACTION_MAP(task.type), <<"Process task:", task.content.desc>>,
                         FileName(f), RiskOf(task.type), task.id, now)
    IN  /\ f \in DOMAIN inbox
        /\ NeedsGate(task.type)
        /\ Len(approvals) < MaxRequests
        /\ approvals' = Append(approvals, [d EXCEPT !.status = "approved"])
        /\ lastOp' = [op |-> "human_create", file |-> f]
        /\ lastPass' = NoPass
        /\ lastReply' = NoReply
        /\ UNCHANGED <<inbox, done, plans, now, deposited, passes, router, mailer,
                       emailLog, acts, surface, producers, watcher>>

NextManual ==
    \/ \E t \in ManualTasks : Deposit(t)
    \/ \E t \in ManualTasks, f \in 1..MaxTasks : DepositNamed(t, f)
    \/ \E t \in ManualTasks : DepositWritten(t)
    \/ \E i \in 1..Len(approvals), decision \in {"approved", "rejected", "revision_requested"} :
          HumanDecide(i, decision)
    \/ \E f \in DOMAIN inbox : HumanCreate(f)
    \/ \E d \in TickLen : Tick(d)
    \/ \E lapse \in {0} \cup TickLen : RunPipeline(FALSE, lapse)

SpecManual == Init /\ [][NextManual]_vars

(* ------------------- plans for every kind of task document ------------- *)
NextPlan ==
    \/ \E t \in Templates : Deposit(t)
    \/ \E dry_run \in BOOLEAN : RunPipeline(dry_run, 0)

SpecPlan == Init /\ [][NextPlan]_vars

(* ------------------------------ the claims ---------------------------- *)
TypeOf(doc) == classify_task(doc.type, doc.source, doc.desc)

\* the task document f of the inbox passes validate_task_schema
ValidTask(f) == validate_task_schema(AnalyzedTask(inbox, f, 1)) = <<>>

\* the step is a pass of the pipeline, run to its end
PassStep(dry_run) == lastOp'.op = "run_pipeline" /\ lastOp'.dry_run = dry_run

\* the approval requests the router created for task document f
RequestsFor(apps, f) == {i \in 1..Len(apps) : apps[i].for_file = f}

\* the first document, in file-name order, that matches (action_type, target)
Matching(apps, action_type, target) ==
    {i \in 1..Len(apps) :
        /\ apps[i].action_type = action_type
        /\ (target = EmptyStr \/ target \in ContentNames(apps[i]))}

FirstMatch(apps, action_type, target) ==
    LET m == Matching(apps, action_type, target)
    IN  IF m = {} THEN 0 ELSE CHOOSE i \in m : \A j \in m : i <= j

\* C1: in a non-dry-run pass a task classified email, finance or marketing
\* is executed only if check_approval returned approved in that pass, and
\* after any not-approved verdict the task document is still in the inbox,
\* unmodified.
C1_ExecutedOnlyIfApproved ==
    [][PassStep(FALSE) =>
         \A i \in 1..Len(lastPass'.log) :
            LET e == lastPass'.log[i] IN
            NeedsGate(e.type) =>
               /\ e.status = "completed" => e.approved
               /\ ~e.approved => /\ e.file \in DOMAIN inbox'
                                 /\ inbox'[e.file] = inbox[e.file]]_vars

\* C2: with the router and the email server interleaved, no two guarded
\* actions are performed on the authority of the same approval document.
C2_OneActionPerApproval ==
    \A i, j \in 1..Len(acts) :
       (i # j /\ acts[i].approved /\ acts[j].approved) => acts[i].by # acts[j].by

\* C3: handle_send_email sends only when the check_approval of that call
\* returned approved; a call that is not approved replies failed with
\* no_valid_approval, logs a blocked entry, sends nothing and leaves every
\* approval document as it was.
C3_SendOnlyIfApproved ==
    [][/\ (mailer.pc = "idle" /\ mailer'.pc = "send") =>
             check_approval(approvals, "send_email", mailer'.recipient, now).approved
       /\ Len(acts') > Len(acts) /\ acts'[Len(acts')].kind = "email" =>
             mailer.pc = "send" /\ mailer.v.approved
       /\ ( /\ mailer.pc = "idle"
            /\ lastOp'.op = "send_email"
            /\ lastOp'.recipient # EmptyStr
            /\ ~check_approval(approvals, "send_email", lastOp'.recipient, now).approved ) =>
             /\ lastReply' = [status |-> "failed", error |-> "no_valid_approval"]
             /\ emailLog' = Append(emailLog, LogEntry(lastOp'.recipient, "blocked", 0))
             /\ mailer'.pc = "idle"
             /\ acts' = acts
             /\ approvals' = approvals]_vars

\* a call was blocked and another one sent its email
C3_Witness ==
    /\ \E i \in 1..Len(emailLog) : emailLog[i].status = "blocked"
    /\ \E i \in 1..Len(emailLog) : emailLog[i].status = "success"
    /\ \E i \in 1..Len(acts) : acts[i].kind = "email"

\* C4: the first pass over a valid email task creates one pending request
\* and leaves the task pending in the inbox; once that request is approved
\* and not expired, the next pass completes and archives the task and sets
\* the request to executed.
C4_EmailTaskCompletesOnceApproved ==
    [][PassStep(FALSE) =>
         \A f \in DOMAIN inbox :
            (ValidTask(f) /\ TypeOf(inbox[f]) = "email") =>
               /\ RequestsFor(approvals, f) = {} =>
                     /\ Cardinality(RequestsFor(approvals', f)) = 1
                     /\ \A i \in RequestsFor(approvals', f) : approvals'[i].status = "pending"
                     /\ f \in DOMAIN inbox' /\ inbox'[f] = inbox[f]
               /\ \A i \in RequestsFor(approvals, f) :
                     (approvals[i].status = "approved" /\ now' <= approvals[i].expires) =>
                        /\ f \notin DOMAIN inbox'
                        /\ <<f, 0>> \in DOMAIN done'
                        /\ done'[<<f, 0>>].status = "completed"
                        /\ approvals'[i].status = "executed"]_vars

\* C5: as long as no human has edited an approval document (all are still
\* pending), at most one approval request exists per gated task.
C5_OneRequestPerTask ==
    (\A i \in 1..Len(approvals) : approvals[i].status = "pending") =>
       \A f \in 1..MaxTasks : Cardinality(RequestsFor(approvals, f)) <= 1

\* C6: when the first document matching (action_type, target) has its
\* expires strictly before the check time, check_approval returns
\* not-approved with the expiry reason, whatever the document's status.
C6_ExpiredNeverApproved ==
    lastOp.op = "check_approval" =>
       LET g == FirstMatch(approvals, lastOp.action_type, lastOp.target) IN
       (g # 0 /\ approvals[g].expires < now) =>
          /\ ~lastOp.v.approved
          /\ lastOp.v.reason = R_EXPIRED
          /\ lastOp.v.at = approvals[g].expires

\* a check that was governed by an approved document past its deadline
C6_Witness ==
    /\ lastOp.op = "check_approval"
    /\ LET g == FirstMatch(approvals, lastOp.action_type, lastOp.target) IN
       g # 0 /\ approvals[g].expires < now /\ approvals[g].status = "approved"

\* C7: every request created by create_approval_file expires 72h, 48h or
\* 24h after its creation for risk low, medium or high, and an unrecognized
\* risk level is stored as high.
C7_ExpiryWindow ==
    /\ \A i \in 1..Len(approvals) :
          /\ approvals[i].risk_level \in {"low", "medium", "high"}
          /\ approvals[i].risk_level = "low" => approvals[i].expires = approvals[i].created + 72
          /\ approvals[i].risk_level = "medium" => approvals[i].expires = approvals[i].created + 48
          /\ approvals[i].risk_level = "high" => approvals[i].expires = approvals[i].created + 24
    /\ (lastOp.op = "create_approval_file" /\ lastOp.created) =>
          LET d == approvals[Len(approvals)] IN
          /\ d.created = now
          /\ d.risk_level = IF lastOp.risk_level \in {"low", "medium", "high"}
                            THEN lastOp.risk_level ELSE "high"

\* a request was created with an unrecognized risk level
C7_Witness ==
    /\ lastOp.op = "create_approval_file"
    /\ lastOp.created
    /\ lastOp.risk_level = "critical"

\* the gated tasks of the inbox whose check is governed by approval i
GovernedBy(i) ==
    {f \in DOMAIN inbox :
        /\ ValidTask(f)
        /\ NeedsGate(TypeOf(inbox[f]))
        /\ FirstMatch(approvals, ACTION_MAP(TypeOf(inbox[f])), FileName(f)) = i}

\* C8: once the 24h of a high-risk request that nobody edited have elapsed,
\* check_approval for its action and target returns not-approved with the
\* expiry reason, and the next pass reports the task it governs failed and
\* leaves the task document in the inbox as it was.
C8_HighRiskExpires ==
    [][\A i \in 1..Len(approvals) :
          LET d == approvals[i] IN
          (d.risk_level = "high" /\ d.status = "pending" /\ now > d.created + 24) =>
             /\ LET v == check_approval(approvals, d.action_type, d.target, now)
                IN  ~v.approved /\ v.reason = R_EXPIRED
             /\ PassStep(FALSE) =>
                   \A f \in GovernedBy(i) :
                      /\ \E k \in 1..Len(lastPass'.log) :
                            /\ lastPass'.log[k].file = f
                            /\ lastPass'.log[k].status = "failed"
                      /\ lastPass'.summary.failed_tasks >= 1
                      /\ f \in DOMAIN inbox'
                      /\ inbox'[f] = inbox[f]
                      /\ \A n \in DOMAIN done' : n[1] # f]_vars

\* a pass has reported a finance task failed because its request expired
C8_Witness ==
    /\ lastOp.op = "run_pipeline"
    /\ \E k \in 1..Len(lastPass.log) :
          /\ lastPass.log[k].type = "finance"
          /\ lastPass.log[k].status = "failed"
          /\ lastPass.log[k].reason = R_EXPIRED
          /\ lastPass.log[k].file \in DOMAIN inbox
          /\ \E i \in 1..Len(approvals) :
                /\ approvals[i].for_file = lastPass.log[k].file
                /\ approvals[i].risk_level = "high"
                /\ approvals[i].status = "pending"

C10_DryRunChangesNothing ==
    [][PassStep(TRUE) =>
         /\ inbox' = inbox
         /\ done' = done
         /\ approvals' = approvals
         /\ plans' = plans]_vars

\* the vault as a pass leaves it, seen d hours later
StoreAfter(d) ==
    [inbox |-> inbox', done |-> done', approvals |-> approvals', plans |-> plans',
     now |-> now' + d]

\* C11: a second pass, run in the same mode after a first one with no
\* deposit and no human edit in between (whatever time has passed), leaves
\* the number of task documents in the inbox and the archive as the first
\* pass left them.
C11_SecondPassIdle ==
    [][\A dr \in BOOLEAN :
          PassStep(dr) =>
             /\ \A d \in {0} \cup TickLen, lapse \in {0} \cup TickLen :
                   LET second == run_pipeline(StoreAfter(d), dr, lapse).S IN
                   /\ Cardinality(DOMAIN second.inbox) = Cardinality(DOMAIN inbox')
                   /\ second.done = done'
             /\ (lastOp.op = "run_pipeline" /\ lastOp.dry_run = dr) =>
                   /\ Cardinality(DOMAIN inbox') = Cardinality(DOMAIN inbox)
                   /\ done' = done]_vars

\* a second pass in a row has run over a vault in which the passes archived
\* one task and left another one, waiting for its approval, in the inbox
C11_Witness ==
    /\ passes = 2
    /\ lastOp.op = "run_pipeline" /\ ~lastOp.dry_run
    /\ DOMAIN done # {}
    /\ \E k \in 1..Len(lastPass.log) : lastPass.log[k].status = "pending_approval"

C13_InvalidTaskRejected ==
    [][\A dr \in BOOLEAN :
          PassStep(dr) =>
             \A f \in DOMAIN inbox :
                (~inbox[f].outcome \/ ~ValidTask(f)) =>
                   LET errors == validate_task_schema(AnalyzedTask(inbox, f, 1)) IN
                   /\ errors # <<>>
                   /\ ~inbox[f].outcome =>
                         \E i \in 1..Len(errors) :
                            errors[i] = "missing or empty section: ## Required Outcome"
                   /\ \E i \in 1..Len(lastPass'.rejected) : lastPass'.rejected[i] = f
                   /\ lastPass'.summary.failed_tasks >= Len(lastPass'.rejected)
                   /\ InLines(SchemaLine(f), surface'.alerts)
                   /\ \A k \in 1..Len(lastPass'.log) : lastPass'.log[k].file # f
                   /\ \A p \in DOMAIN plans' : plans'[p].source_file # f
                   /\ f \in DOMAIN inbox' /\ inbox'[f] = inbox[f]
                   /\ \A n \in DOMAIN done' : n[1] # f]_vars

\* a second pass has rejected the same invalid task again, beside a task it
\* completed
C13_Witness ==
    /\ passes = 2
    /\ lastOp.op = "run_pipeline"
    /\ lastPass.rejected # <<>>
    /\ lastPass.summary.failed_tasks >= 1
    /\ \E k \in 1..Len(lastPass.log) : lastPass.log[k].status = "completed"
    /\ \E i \in 1..Len(surface.alerts) : surface.alerts[i].kind = "SCHEMA FAILURE"

\* C14: a pass that starts with the handbook or the status-surface document
\* missing halts: its summary has status halted, it has analysed no task,
\* and no task, plan or approval document was created, modified or moved.
C14_HaltsWithoutPolicies ==
    [][\A dr \in BOOLEAN :
          (PassStep(dr) /\ (~surface.handbook \/ ~surface.dashboard)) =>
             /\ lastPass'.summary.status = "halted"
             /\ lastPass'.analyzed = 0
             /\ lastPass'.log = <<>> /\ lastPass'.rejected = <<>>
             /\ inbox' = inbox
             /\ done' = done
             /\ approvals' = approvals
             /\ plans' = plans]_vars

\* a pass halted although a valid email task was waiting in the inbox
C14_Witness ==
    /\ lastOp.op = "run_pipeline"
    /\ lastPass.summary.status = "halted"
    /\ ~surface.handbook
    /\ \E f \in DOMAIN inbox : ValidTask(f) /\ TypeOf(inbox[f]) = "email"
    /\ approvals = <<>> /\ DOMAIN plans = {} /\ DOMAIN done = {}

\* C15: a document I/O error met while one task is processed (reading or
\* rewriting its task document, or writing its approval request) is recorded
\* as the failure of that task and never aborts the pass: the pass returns
\* its summary, every other valid task of the batch is routed as it would
\* have been without the error, and the status surface gets the run entry.
C15_IOErrorFailsOneTask ==
    [][(lastOp'.op = "run_pipeline_io" /\ lastPass'.io_error) =>
          LET f == lastOp'.fault.file
              log == lastPass'.log
              sound == run_pipeline(Store, FALSE, lastOp'.lapse).log
          IN  /\ lastPass'.summary.status = "complete"
              /\ \E k \in 1..Len(log) : log[k].file = f /\ log[k].status = "failed"
              /\ \A g \in DOMAIN inbox \ {f} :
                    ValidTask(g) =>
                       \E k \in 1..Len(log), j \in 1..Len(sound) :
                          /\ log[k].file = g /\ sound[j].file = g
                          /\ log[k].status = sound[j].status
              /\ surface'.activity # <<>>
              /\ Head(surface'.activity) = RunLine(lastPass'.summary)]_vars

\* C16: classify_task maps every (metadata, description) pair to exactly one
\* of email, message, file, finance, marketing, general, and the result is
\* the category of the first rule that matches in the order email, message,
\* file, finance, marketing; general when none matches.
C16_ClassifyByPrecedence ==
    lastOp.op = "classify_task" =>
       LET inType == KeywordsOf(lastOp.ftype)
           inSource == KeywordsOf(lastOp.source)
           inDesc == KeywordsOf(lastOp.desc)
           category == <<"email", "message", "file", "finance", "marketing">>
           matches == <<"email" \in inType \cup inSource \cup inDesc \/ "inbox" \in inDesc,
                        inType \cap {"message", "chat", "notification", "alert"} # {},
                        "file" \in inType \/ lastOp.source = "watcher.py" \/ "file detect" \in inDesc,
                        (inType \cup inDesc) \cap {"finance", "invoice", "payment", "budget"} # {},
                        (inType \cup inDesc) \cap {"linkedin", "marketing", "social", "post"} # {}>>
       IN  /\ lastOp.result \in {"email", "message", "file", "finance", "marketing", "general"}
           /\ \A i \in 1..5 :
                 (matches[i] /\ \A j \in 1..(i - 1) : ~matches[j]) => lastOp.result = category[i]
           /\ (\A i \in 1..5 : ~matches[i]) => lastOp.result = "general"

\* a description with the keywords of email, finance and marketing was
\* classified email
C16_Witness ==
    /\ lastOp.op = "classify_task"
    /\ lastOp.desc = D_MIXED
    /\ {"email", "invoice", "post"} \subseteq KeywordsOf(lastOp.desc)
    /\ lastOp.result = "email"

\* C17 as stated: the tasks of a pass are routed in the order of priority
\* (high, medium, low) and then of created ascending, and that order is
\* strict: of two tasks of a batch one comes strictly before the other.
C17_StrictByPriorityAndCreated ==
    [][\A dr \in BOOLEAN :
          PassStep(dr) =>
             LET log == lastPass'.log
                 severity == [p \in {"high", "medium", "low"} |->
                                 IF p = "high" THEN 0 ELSE IF p = "medium" THEN 1 ELSE 2]
                 rank(k) == severity[inbox[log[k].file].priority]
                 created(k) == inbox[log[k].file].created
             IN  \A k, l \in 1..Len(log) :
                    k < l => \/ rank(k) < rank(l)
                             \/ rank(k) = rank(l) /\ created(k) < created(l)]_vars

\* C17 amended: the tasks of a pass are routed in the order of priority
\* (high, medium, low), then of created ascending, then of file name
\* ascending; every valid task of the batch is routed exactly once, and in
\* that order no two distinct tasks compare equal.
C17_OrderedWithNameTieBreak ==
    [][\A dr \in BOOLEAN :
          PassStep(dr) =>
             LET log == lastPass'.log
                 severity == [p \in {"high", "medium", "low"} |->
                                 IF p = "high" THEN 0 ELSE IF p = "medium" THEN 1 ELSE 2]
                 rank(k) == severity[inbox[log[k].file].priority]
                 created(k) == inbox[log[k].file].created
             IN  /\ \A k, l \in 1..Len(log) :
                       k < l => \/ rank(k) < rank(l)
                                \/ rank(k) = rank(l) /\ created(k) < created(l)
                                \/ /\ rank(k) = rank(l) /\ created(k) = created(l)
                                   /\ log[k].file < log[l].file
                 /\ \A f \in DOMAIN inbox :
                       ValidTask(f) => \E k \in 1..Len(log) : log[k].file = f]_vars

\* a pass routed two tasks against the order of their file names
C17_Witness ==
    /\ lastOp.op = "run_pipeline"
    /\ Len(lastPass.log) = 2
    /\ lastPass.log[1].file > lastPass.log[2].file

\* C18: mark_approval_executed changes a document only when its status is
\* approved, setting it to executed; on an absent file or on a document whose
\* status is not approved it leaves the store unchanged and returns false;
\* a second call changes nothing more.
C18_MarkOnlyApproved ==
    [][lastOp'.op = "mark_approval_executed" =>
          LET i == lastOp'.file
              marks == i \in 1..Len(approvals) /\ approvals[i].status = "approved"
          IN  /\ marks => approvals' = [approvals EXCEPT ![i].status = "executed"]
              /\ ~marks => approvals' = approvals /\ ~lastOp'.returned
              /\ mark_approval_executed(approvals', i) = approvals'
              /\ UNCHANGED <<inbox, done, plans>>]_vars

\* C19 as stated: the result of check_approval is decided by the first
\* document in file-name order that matches (action_type, target): expired
\* gives not-approved, approved gives approved with that file, rejected,
\* revision_requested and pending give not-approved; the documents after it
\* have no influence, and without a matching document the reason is that no
\* matching approval was found.
C19_FirstMatchDecides ==
    lastOp.op = "check_approval" =>
       LET g == FirstMatch(approvals, lastOp.action_type, lastOp.target)
           v == lastOp.v
       IN  IF g = 0 THEN v = NotApproved(R_NOMATCH, 0)
           ELSE /\ approvals[g].expires < now => ~v.approved /\ v.reason = R_EXPIRED
                /\ (approvals[g].expires >= now /\ approvals[g].status = "approved") =>
                      v.approved /\ v.file = g
                /\ (approvals[g].expires >= now /\ approvals[g].status = "rejected") =>
                      ~v.approved /\ v.reason = R_REJECTED
                /\ (approvals[g].expires >= now /\ approvals[g].status = "revision_requested") =>
                      ~v.approved /\ v.reason = R_REVISION
                /\ (approvals[g].expires >= now /\ approvals[g].status = "pending") =>
                      ~v.approved /\ v.reason = R_PENDING
                /\ v = check_approval(SubSeq(approvals, 1, g), lastOp.action_type,
                                      lastOp.target, now)

\* C19 amended: the result is decided by the first matching document that
\* is expired or has status approved, rejected, revision_requested or
\* pending; matching documents before it with another status, such as
\* executed, are passed over; the documents after it have no influence, and
\* without such a document the reason is that no matching approval was found.
C19_FirstDecisiveMatchDecides ==
    lastOp.op = "check_approval" =>
       LET decisive == {i \in Matching(approvals, lastOp.action_type, lastOp.target) :
                           \/ approvals[i].expires < now
                           \/ approvals[i].status \in
                                 {"approved", "rejected", "revision_requested", "pending"}}
           g == IF decisive = {} THEN 0 ELSE CHOOSE i \in decisive : \A j \in decisive : i <= j
           v == lastOp.v
       IN  IF g = 0 THEN v = NotApproved(R_NOMATCH, 0)
           ELSE /\ approvals[g].expires < now => ~v.approved /\ v.reason = R_EXPIRED
                /\ (approvals[g].expires >= now /\ approvals[g].status = "approved") =>
                      v.approved /\ v.file = g
                /\ (approvals[g].expires >= now /\ approvals[g].status = "rejected") =>
                      ~v.approved /\ v.reason = R_REJECTED
                /\ (approvals[g].expires >= now /\ approvals[g].status = "revision_requested") =>
                      ~v.approved /\ v.reason = R_REVISION
                /\ (approvals[g].expires >= now /\ approvals[g].status = "pending") =>
                      ~v.approved /\ v.reason = R_PENDING
                /\ v = check_approval(SubSeq(approvals, 1, g), lastOp.action_type,
                                      lastOp.target, now)

\* a check that passed over an executed document and was decided by the
\* approved document after it
C19_Witness ==
    /\ lastOp.op = "check_approval"
    /\ Len(approvals) = 2
    /\ Matching(approvals, lastOp.action_type, lastOp.target) = {1, 2}
    /\ approvals[1].status = "executed" /\ approvals[1].expires >= now
    /\ approvals[2].status = "approved"
    /\ lastOp.v.approved /\ lastOp.v.file = 2

\* C20: create_approval_file called with an empty action_type, description
\* or target returns status failed with an error that names the missing
\* input, writes no approval document and adds no entry to the status
\* surface.
C20_EmptyInputRefused ==
    [][(/\ lastOp'.op = "create_approval_file"
        /\ (lastOp'.action_type = "" \/ lastOp'.desc = <<>> \/ lastOp'.target = EmptyStr)) =>
          /\ lastOp'.returned.status = "failed"
          /\ \/ lastOp'.returned.error = "missing action_type" /\ lastOp'.action_type = ""
             \/ lastOp'.returned.error = "missing description" /\ lastOp'.desc = <<>>
             \/ lastOp'.returned.error = "missing target" /\ lastOp'.target = EmptyStr
          /\ approvals' = approvals
          /\ surface' = surface]_vars

\* a call with only the target missing was refused while a request was on file
C20_Witness ==
    /\ lastOp.op = "create_approval_file"
    /\ lastOp.action_type # "" /\ lastOp.desc # <<>> /\ lastOp.target = EmptyStr
    /\ lastOp.returned = [status |-> "failed", error |-> "missing target"]
    /\ ~lastOp.created
    /\ Len(approvals) = 1
    /\ Len(surface.activity) = 1

\* C28: whenever a pass completes a gated task, the approval document it was
\* executed on has status executed after the pass, and the pass changes no
\* other approval document that existed before it.
C28_GoverningApprovalExecuted ==
    [][PassStep(FALSE) =>
          LET used == {lastPass'.log[k].by : k \in
                         {k \in 1..Len(lastPass'.log) :
                             /\ lastPass'.log[k].status = "completed"
                             /\ lastPass'.log[k].approved}}
          IN  /\ \A i \in used : approvals'[i].status = "executed"
              /\ \A i \in 1..Len(approvals) :
                    i \notin used => approvals'[i] = approvals[i]]_vars

\* C24: a task document left in the inbox with status completed, by a pass
\* that stopped between the rewrite and the relocation, is relocated to the
\* archive by the next pass that runs to its end.
C24_CompletedLeftoverArchived ==
    [][(lastOp'.op = "run_pipeline_io" /\ lastPass'.summary.status = "complete") =>
          \A f \in DOMAIN inbox :
              inbox[f].status = "completed" =>
                  /\ f \notin DOMAIN inbox'
                  /\ \E n \in DOMAIN done' \ DOMAIN done : n[1] = f]_vars

\* C27: no pass deletes or replaces a task document: every document of the
\* inbox is afterwards either still in the inbox or stored in the archive
\* under a name no archived document had, every archived document is still
\* there unchanged, and the documents of the inbox and the archive together
\* are as many as were deposited.
C27_TaskDocumentsKept ==
    [][/\ PassStep(FALSE) =>
            /\ \A f \in DOMAIN inbox :
                  (f \in DOMAIN inbox') #
                  (\E n \in DOMAIN done' \ DOMAIN done :
                        n[1] = f /\ done'[n] = CompletedDoc(inbox[f]))
            /\ \A n \in DOMAIN done : n \in DOMAIN done' /\ done'[n] = done[n]
       /\ Cardinality(DOMAIN inbox') + Cardinality(DOMAIN done') = deposited']_vars

\* a task was archived under a numeric-suffixed name next to the document
\* that had its name first
C27_Witness ==
    /\ lastOp.op = "run_pipeline"
    /\ \E f \in 1..MaxTasks : {<<f, 0>>, <<f, 1>>} \subseteq DOMAIN done

\* C30: when a gated task has been reported failed (its approval rejected or
\* expired) and the reviewer then writes a fresh, approved, unexpired
\* approval document for it, the pass that follows completes the task and
\* moves it to the archive.
C30_FreshApprovalRetries ==
    [][(/\ lastOp.op = "human_create"
        /\ InLines(FailedLine(lastOp.file), surface.alerts)
        /\ ~IsExpired(approvals[Len(approvals)], now)
        /\ PassStep(FALSE)) =>
          /\ lastOp.file \notin DOMAIN inbox'
          /\ \E k \in 1..Len(lastPass'.log) :
                /\ lastPass'.log[k].file = lastOp.file
                /\ lastPass'.log[k].status = "completed"]_vars

\* the verdict of check_approval on the task document f, as a pass beginning
\* in the state with approval documents apps at time t would get it
VerdictOn(apps, f, t) ==
    check_approval(apps, ACTION_MAP(TypeOf(inbox[f])), FileName(f), t)

\* C25: a gated task whose approval is rejected or has expired, which is
\* when a pass reports it failed, is executed by no pass and stays in the
\* inbox unchanged, and its approval stays rejected or expired, as long as
\* no person changes or adds an approval document.
C25_FailedNeverRetried ==
    [][\A f \in DOMAIN inbox :
          (/\ NeedsGate(TypeOf(inbox[f]))
           /\ VerdictOn(approvals, f, now).reason \in {R_REJECTED, R_EXPIRED}
           /\ (PassStep(FALSE) \/ approvals' = approvals)) =>
               /\ f \in DOMAIN inbox' /\ inbox'[f] = inbox[f]
               /\ VerdictOn(approvals', f, now').reason \in {R_REJECTED, R_EXPIRED}
               /\ PassStep(FALSE) =>
                     \A k \in 1..Len(lastPass'.log) :
                         lastPass'.log[k].file = f => lastPass'.log[k].status = "failed"]_vars

\* a second pass has reported the task failed that the pass before it had
\* reported failed for a rejected or expired approval
C25_Witness ==
    /\ lastOp.op = "run_pipeline" /\ ~lastOp.dry_run
    /\ passes = 2
    /\ \E k \in 1..Len(lastPass.log) :
          /\ lastPass.log[k].status = "failed"
          /\ lastPass.log[k].reason \in {R_REJECTED, R_EXPIRED}
          /\ Len(SelectSeq(surface.alerts,
                           LAMBDA l : l = FailedLine(lastPass.log[k].file))) >= 2

\* C26: a step either keeps every alert line of the alert section, in its
\* order, below the lines it adds, or is a pass, dry run or not, that ended
\* with no failed task and whose status update left the section in the none
\* state.
C26_AlertsOnlyAdded ==
    [][LET old == SelectSeq(surface.alerts, LAMBDA l : l # NoneLine)
           new == surface'.alerts
       IN  \/ /\ Len(new) >= Len(old)
              /\ SubSeq(new, Len(new) - Len(old) + 1, Len(new)) = old
           \/ /\ lastOp'.op = "run_pipeline"
              /\ lastPass'.summary.failed_tasks = 0
              /\ new = <<NoneLine>>]_vars

\* a pass has added an alert line above one recorded before it
C26_Witness ==
    /\ lastOp.op = "run_pipeline"
    /\ passes = 2
    /\ Len(surface.alerts) >= 2
    /\ \A i \in 1..Len(surface.alerts) : surface.alerts[i] # NoneLine

\* C29: every task document, in the inbox or in the archive, has status
\* completed exactly if it has a Result section and Completion Notes and no
\* unchecked checklist item.
C29_CompletedIffResultWritten ==
    /\ \A f \in DOMAIN inbox :
          inbox[f].status = "completed" <=>
              (inbox[f].results > 0 /\ inbox[f].notes > 0 /\ inbox[f].unchecked = 0)
    /\ \A n \in DOMAIN done :
          done[n].status = "completed" <=>
              (done[n].results > 0 /\ done[n].notes > 0 /\ done[n].unchecked = 0)

\* C21: no reader ever finds a document truncated or partly written: when
\* the email server or the router calls check_approval, no approval document
\* of the directory is an empty file.
C21_ReadersSeeWholeDocuments ==
    [][(\/ mailer.pc = "idle" /\ lastOp'.op = "send_email"
        \/ router.pc = "route" /\ router.queue # <<>> /\ router' # router) =>
          \A i \in 1..Len(approvals) : approvals[i] # EmptyFile(approvals[i])]_vars

\* C22: no update of a document is overwritten from a stale read: when
\* mark_approval_executed opens an approval file for writing, the file still
\* has the content the call read from it.
C22_NoStaleOverwrite ==
    [][lastOp'.op = "open_w" => approvals[lastOp'.file] = lastOp'.seen]_vars

\* C23: every task document a watcher creates gets a name that no document
\* of the inbox has, so that each completed write_task adds one document to
\* the inbox and replaces none.
C23_ProducersNeverOverwrite ==
    [][lastOp'.op = "write_task" =>
          /\ lastOp'.dest \notin DOMAIN inbox
          /\ Cardinality(DOMAIN inbox') = Cardinality(DOMAIN inbox) + 1]_vars

\* C33: after every pass the counters of the status surface give the number
\* of task documents in the inbox and the number of approval documents whose
\* status is pending.
C33_CountersMatchStore ==
    [][lastOp'.op = "run_pipeline" =>
          /\ surface'.counters.pending = Cardinality(DOMAIN inbox')
          /\ surface'.counters.approvals =
                Cardinality({i \in 1..Len(approvals') : approvals'[i].status = "pending"})]_vars

\* C38: at the end of a pass that is no dry run and was not halted, the
\* three counters of the summary add up to the number of task documents the
\* analyze phase read, and every task document of the inbox was either
\* rejected by validation or routed once, with one of the three outcomes.
C38_SummaryAddsUp ==
    [][(PassStep(FALSE) /\ lastPass'.summary.status = "complete") =>
          LET p == lastPass' IN
          /\ p.summary.processed_tasks + p.summary.pending_approval
                + p.summary.failed_tasks = p.analyzed
          /\ p.analyzed = Cardinality(DOMAIN inbox)
          /\ \A f \in DOMAIN inbox :
                Cardinality({k \in 1..Len(p.rejected) : p.rejected[k] = f})
                  + Cardinality({k \in 1..Len(p.log) : p.log[k].file = f}) = 1
          /\ \A k \in 1..Len(p.log) :
                p.log[k].status \in {"completed", "pending_approval", "failed"}]_vars

\* a pass has read two task documents, completed one and counted one failed
C38_Witness ==
    /\ lastOp.op = "run_pipeline" /\ ~lastOp.dry_run
    /\ lastPass.analyzed = 2
    /\ lastPass.summary.processed_tasks = 1
    /\ lastPass.summary.failed_tasks = 1

\* C40: the approval-required alert of a request of medium or high risk that
\* a pass created is in the alerts of the status surface when the pass ends,
\* the request still being pending.
C40_ApprovalAlertKept ==
    [][(lastOp'.op = "run_pipeline" /\ surface'.dashboard) =>
          \A i \in (Len(approvals) + 1)..Len(approvals') :
              (approvals'[i].risk_level \in {"medium", "high"}
                  /\ approvals'[i].status = "pending")
              => InLines(ApprovalLine(approvals'[i], i), surface'.alerts)]_vars

\* C37: a pending task document written by the filesystem watcher (type
\* file_event, source watcher.py, "New file detected in Inbox.") is
\* classified file and a pass completes and archives it without creating an
\* approval request for it.
C37_WatcherTasksUngated ==
    [][PassStep(FALSE) =>
          \A f \in DOMAIN inbox :
              (inbox[f].type = "file_event" /\ inbox[f].source = "watcher.py"
                  /\ inbox[f].desc = D_WATCHER /\ ValidTask(f))
              => /\ TypeOf(inbox[f]) = "file"
                 /\ f \notin DOMAIN inbox'
                 /\ \E k \in DOMAIN done' : k[1] = f /\ done'[k].status = "completed"
                 /\ RequestsFor(approvals', f) = RequestsFor(approvals, f)]_vars

\* C32: a generated plan has a review-gated step exactly when its task type
\* is one execute_task gates (email, finance, marketing); the plans of file
\* and general tasks have auto steps only and list no approval gate.
C32_PlanGatesMatchRouter ==
    \A k \in DOMAIN plans :
       LET p == plans[k] IN
       /\ (review_steps(p.steps) # {}) <=> NeedsGate(p.task_type)
       /\ p.task_type \in {"file", "general"} =>
             /\ \A i \in 1..Len(p.steps) : p.steps[i] = "auto"
             /\ review_steps(p.steps) = {}

\* plans were written for a marketing task document and for a file or
\* general one
C32_Witness ==
    /\ \E k \in DOMAIN plans : plans[k].task_type = "marketing"
    /\ \E k \in DOMAIN plans : plans[k].task_type \in {"file", "general"}

\* C34: a task document is executed at most once.  A pass leaves a document
\* of the inbox whose status is completed as it is, a pass that runs to its
\* end reports it rejected by validation, and no task document, in the inbox
\* or in the archive, ever holds more than one Result section or more than
\* one Completion Notes section.
C34_ExecutedAtMostOnce ==
    [][lastOp'.op \in {"run_pipeline", "run_pipeline_io"} =>
          /\ \A f \in DOMAIN inbox :
                inbox[f].status = "completed" =>
                   /\ f \in DOMAIN inbox' /\ inbox'[f] = inbox[f]
                   /\ lastPass'.summary.status = "complete" =>
                         \E k \in 1..Len(lastPass'.rejected) : lastPass'.rejected[k] = f
          /\ \A f \in DOMAIN inbox' : inbox'[f].results <= 1 /\ inbox'[f].notes <= 1
          /\ \A n \in DOMAIN done' : done'[n].results <= 1 /\ done'[n].notes <= 1]_vars

\* a pass has run to its end over an inbox holding a completed task document
\* and has rejected it
C34_Witness ==
    /\ lastOp.op = "run_pipeline_io"
    /\ lastPass.summary.status = "complete"
    /\ \E f \in DOMAIN inbox :
          /\ inbox[f].status = "completed" /\ inbox[f].results = 1
          /\ \E k \in 1..Len(lastPass.rejected) : lastPass.rejected[k] = f

\* C31: the gate leaves created and expires of every approval document as
\* they were written at creation, writes status executed only over status
\* approved, and never alters a pending, rejected or revision_requested
\* document.  Stated of each rewrite by mark_approval_executed: the content
\* it is about to write, compared with the document it opens for writing.
C31_GateWritesOnlyApprovedToExecuted ==
    [][lastOp'.op = "open_w" =>
          LET before == approvals[lastOp'.file]
              after == MarkedContent(lastOp'.seen)
          IN  /\ after.created = before.created
              /\ after.expires = before.expires
              /\ (after.status = "executed" /\ before.status # "executed")
                    => before.status = "approved"
              /\ before.status \in {"pending", "rejected", "revision_requested"}
                    => after = before]_vars

\* C35: check_approval(action_type, t) returns approved only on the strength
\* of a document that was created for exactly target t: not for an empty t,
\* and not because t occurs elsewhere in the document.
C35_ApprovedForThatTarget ==
    (lastOp.op = "check_approval" /\ lastOp.v.approved) =>
        /\ lastOp.target # EmptyStr
        /\ approvals[lastOp.v.file].target = lastOp.target

\* C36: check_approval never returns approved on the strength of an approval
\* document whose expires field is missing or cannot be parsed.
C36_MalformedDeadlineNotApproved ==
    (lastOp.op = "check_approval" /\ lastOp.v.approved) =>
        approvals[lastOp.v.file].expires # NoDeadline

\* C39: the filesystem watcher creates at most one task document per file
\* deposited in Inbox/, across scans, stops and restarts: write_task is not
\* called for a file for which a task document exists, unless the file has
\* been swept to the archive since that document was written.
C39_OneTaskPerFile ==
    [][lastOp'.op = "scan_write" =>
          ~\E t \in 1..Len(watcher.tasks) :
               watcher.tasks[t] = lastOp'.file /\ t \notin watcher.old]_vars

====
